---- MODULE Spec2Model ----
(***************************************************************************)
(* aoc_elf: the answer-submission workflow of src/utils/answer_submission.py *)
(* and the menu loop of src/aoc_elf.py that calls it.                        *)
(*                                                                           *)
(* Text is a sequence of one-character strings, so that the regular          *)
(* expressions and substring tests of the code are computed on characters.   *)
(* Time is counted in ticks, TicksPerSecond ticks to the second, so that a   *)
(* timedelta or a datetime with a fraction of a second has a value.          *)
(***************************************************************************)
EXTENDS Integers, Sequences, FiniteSets, TLC

VARIABLES
    message,          \* parse_wait_time: its argument (SpecParse)
    wait_time,        \* parse_wait_time: the timedelta it returned, in ticks
    parse_pc,         \* parse_wait_time: "start", "returned"
    pc,               \* position of main / submit_answer_attempt
    args,             \* (year, day, part) of the running attempt, Some/None
    answered,         \* what puzzle.answered(part) returned, Some/None
    aocd_cache,       \* what calculate_remaining_wait_time found in aocd_dir, Some/None
    feedback,         \* calculate_remaining_wait_time: feedback, Some(entry) or None
    current_time,     \* calculate_remaining_wait_time: current_time, Some(t) or None
    remaining_time,   \* remaining_wait_time / remaining_time, in ticks
    response,         \* the result of submit() being classified
    para_idx,         \* index of the paragraph the classification loop is at
    submit_calls,     \* calls of aocd.submit in the running attempt
    refresh_calls,    \* calls of check_and_update_example_input, as (day, year)
    countdown_iters,  \* iterations of the countdown loop in the running attempt
    output,           \* what the attempt printed, in order
    remaining_wait_time, \* submit_answer_attempt: remaining_wait_time, Some(ticks) or None
    prompt_pc,        \* submit_answer: the prompt it is at (SpecPrompt)
    prompt_now,       \* get_day_and_year: now, as (year, month, day)
    year,             \* get_day_and_year: year, Some/None
    day,              \* get_day_and_year: day, Some/None
    part,             \* prompt_for_part_and_answer: part, Some/None
    answer,           \* prompt_for_part_and_answer: answer, Some/None
    last_input,       \* the text of the last input a prompt refused, Some/None
    reprompts,        \* inputs the prompt of the current field has refused
    data_pc,          \* position of main around the calls into aoc_data (SpecData)
    example_file,     \* example.txt of the day: Some(text), or None when it is missing
    aocd_example,     \* stdout of "aocd <day> <year> --example", None when it fails
    post_file,        \* the day's <year>/day_NN_post.json, None when it is missing
    refresh_log,      \* the calls of check_and_update_example_input made from the menu
    fetch_result,     \* how fetch_data_for_day ended, Some/None
    menu_pc,          \* position of main in its menu loop (SpecMenu)
    environ,          \* os.environ after the last load of .env: the three settings
    BASE_DIR,         \* main: the global BASE_DIR, Some(text) or None
    GITHUB_REPO,      \* main: the global GITHUB_REPO, Some(text) or None
    AOC_SESSION,      \* main: the global AOC_SESSION, Some(text) or None
    unused_envs,      \* main: unused_envs, a set of names
    choice,           \* main: the last choice typed, Some(text) or None
    feature,          \* the feature the last choice called, Some(name) or None
    scaf_pc,          \* position of setup_aoc_environment (SpecScaffold)
    year_dir_exists,  \* whether the directory of the year exists
    day_dirs,         \* the state of each day directory on disk
    scaf_day,         \* create_day_dir: day, the day the loop is at
    results,          \* create_day_dir: results, Some(record) once it exists
    overwrite_responses, \* confirm_overwrite: the response that ended each call
    removed           \* the day directories shutil.rmtree removed

vars == <<message, wait_time, parse_pc, pc, args, answered, aocd_cache, feedback,
          current_time, remaining_time, response, para_idx, submit_calls,
          refresh_calls, countdown_iters, output, remaining_wait_time,
          prompt_pc, prompt_now, year, day, part, answer, last_input, reprompts,
          data_pc, example_file, aocd_example, post_file, refresh_log, fetch_result,
          menu_pc, environ, BASE_DIR, GITHUB_REPO, AOC_SESSION, unused_envs, choice,
          feature,
          scaf_pc, year_dir_exists, day_dirs, scaf_day, results, overwrite_responses,
          removed>>

parseVars == <<message, wait_time, parse_pc>>

promptVars == <<prompt_pc, prompt_now, year, day, part, answer, last_input, reprompts>>

dataVars == <<data_pc, example_file, aocd_example, post_file, refresh_log, fetch_result>>

menuVars == <<menu_pc, environ, BASE_DIR, GITHUB_REPO, AOC_SESSION, unused_envs, choice,
              feature>>

scaffoldVars == <<scaf_pc, year_dir_exists, day_dirs, scaf_day, results,
                  overwrite_responses, removed>>

\* what the actions of submit_answer_attempt leave alone
otherVars == <<parseVars, promptVars, dataVars, menuVars, scaffoldVars>>

attemptVars == <<pc, args, answered, aocd_cache, feedback, current_time, remaining_time,
                 response, para_idx, submit_calls, refresh_calls,
                 countdown_iters, output, remaining_wait_time>>

(***************************************************************************)
(* Bounds of the model.                                                     *)
(***************************************************************************)
TicksPerSecond == 2    \* resolution of time
MaxNum == 1            \* numbers 0..MaxNum written in the messages parsed
MaxFiles == 2          \* per-day feedback files in the cache
MaxCacheEntries == 2   \* feedback entries in the cache, all files together
MaxWhen == 1           \* latest timestamp of a feedback entry, in ticks
MaxNow == 4            \* latest current time, in ticks
MaxParagraphs == 2     \* paragraphs in the article of a response
MaxReprompts == 2      \* inputs one prompt refuses in a row
MaxRefreshCalls == 2   \* calls of check_and_update_example_input made in a row
MaxSubmissions == 2    \* entries in the feedback file of the day

(***************************************************************************)
(* Optional values (Python's None).                                         *)
(***************************************************************************)
None == <<>>
Some(x) == <<x>>
Get(o) == o[1]

(***************************************************************************)
(* Characters.                                                              *)
(***************************************************************************)
UpperChars == <<"A","B","C","D","E","F","G","H","I","J","K","L","M",
                "N","O","P","Q","R","S","T","U","V","W","X","Y","Z">>
LowerChars == <<"a","b","c","d","e","f","g","h","i","j","k","l","m",
                "n","o","p","q","r","s","t","u","v","w","x","y","z">>
DigitChars == <<"0","1","2","3","4","5","6","7","8","9">>

OtherChars == <<" ", ".", "'", "!", "[", "]", "\n", "-", "+", ":", "_", "/", "\\">>

Alphabet ==
    {UpperChars[i] : i \in 1..26} \cup {LowerChars[i] : i \in 1..26}
    \cup {DigitChars[i] : i \in 1..10} \cup {OtherChars[i] : i \in 1..Len(OtherChars)}

\* str.lower() of each character of the alphabet
LowerTable ==
    [c \in Alphabet |->
        IF \E i \in 1..26 : UpperChars[i] = c
        THEN LowerChars[CHOOSE i \in 1..26 : UpperChars[i] = c]
        ELSE c]

\* str.lower() of one character; re.IGNORECASE compares characters by it
Lower(c) == LowerTable[c]

\* the character class \d
IsDigit(c) == \E i \in 1..10 : DigitChars[i] = c

DigitValue(c) == (CHOOSE i \in 1..10 : DigitChars[i] = c) - 1

\* int(s) of a non-empty string of digits
RECURSIVE int(_)
int(s) ==
    IF Len(s) = 0 THEN 0
    ELSE 10 * int(SubSeq(s, 1, Len(s) - 1)) + DigitValue(s[Len(s)])

\* substring in text (case-sensitive), the Python operator "in"
Contains(text, sub) ==
    \E i \in 1..(Len(text) - Len(sub) + 1) :
        \A k \in 1..Len(sub) : text[i + k - 1] = sub[k]

(***************************************************************************)
(* The regular expressions of parse_wait_time, matched as re.search does:   *)
(* the leftmost start position at which the pattern matches.               *)
(***************************************************************************)
\* a literal of the pattern matches at position i, ignoring case
MatchLit(text, i, lit) ==
    /\ i >= 1
    /\ i + Len(lit) - 1 <= Len(text)
    /\ \A k \in 1..Len(lit) : Lower(text[i + k - 1]) = Lower(lit[k])

\* \d+ is greedy: the position after the longest run of digits from i
RECURSIVE DigitRunEnd(_, _)
DigitRunEnd(text, i) ==
    IF i <= Len(text) /\ IsDigit(text[i]) THEN DigitRunEnd(text, i + 1) ELSE i

LitYouHave == <<"Y","o","u"," ","h","a","v","e"," ">>
LitM == <<"m"," ">>
LitLeftToWait == <<"s"," ","l","e","f","t"," ","t","o"," ","w","a","i","t">>
LitOneMinute == <<"o","n","e"," ","m","i","n","u","t","e">>
LitPleaseWait == <<"p","l","e","a","s","e"," ","w","a","i","t"," ">>
LitMinutesBefore == <<" ","m","i","n","u","t","e","s"," ","b","e","f","o","r","e",
                      " ","t","r","y","i","n","g"," ","a","g","a","i","n">>
LitWait == <<"w","a","i","t">>

\* r"You have (\d+)m (\d+)s left to wait." at start position i: the two groups,
\* or None. The final "." of the pattern is unescaped: one character, no newline.
WaitTimeMatchAt(text, i) ==
    LET a == i + Len(LitYouHave)
        b == DigitRunEnd(text, a)
        c == b + Len(LitM)
        d == DigitRunEnd(text, c)
        e == d + Len(LitLeftToWait)
    IN  IF /\ MatchLit(text, i, LitYouHave)
           /\ b > a
           /\ MatchLit(text, b, LitM)
           /\ d > c
           /\ MatchLit(text, d, LitLeftToWait)
           /\ e <= Len(text)
           /\ text[e] # "\n"
        THEN Some(<<SubSeq(text, a, b - 1), SubSeq(text, c, d - 1)>>)
        ELSE None

\* r"please wait (\d+) minutes before trying again" at start position i
MinutesWaitMatchAt(text, i) ==
    LET a == i + Len(LitPleaseWait)
        b == DigitRunEnd(text, a)
    IN  IF /\ MatchLit(text, i, LitPleaseWait)
           /\ b > a
           /\ MatchLit(text, b, LitMinutesBefore)
        THEN Some(<<SubSeq(text, a, b - 1)>>)
        ELSE None

\* re.search: the match at the leftmost position that has one, from position i on
RECURSIVE SearchWaitTime(_, _)
SearchWaitTime(text, i) ==
    IF i > Len(text) THEN None
    ELSE IF WaitTimeMatchAt(text, i) # None THEN WaitTimeMatchAt(text, i)
    ELSE SearchWaitTime(text, i + 1)

RECURSIVE SearchMinutesWait(_, _)
SearchMinutesWait(text, i) ==
    IF i > Len(text) THEN None
    ELSE IF MinutesWaitMatchAt(text, i) # None THEN MinutesWaitMatchAt(text, i)
    ELSE SearchMinutesWait(text, i + 1)

\* timedelta(minutes=m, seconds=s), in ticks
timedelta(m, s) == (60 * m + s) * TicksPerSecond

\* parse_wait_time with the seconds of the first pattern dropped
parse_wait_time_NoSeconds(msg) ==
    LET wait_time_match == SearchWaitTime(msg, 1)
        minutes_wait_match == SearchMinutesWait(msg, 1)
    IN  IF wait_time_match # None
        THEN timedelta(int(Get(wait_time_match)[1]), 0)
        ELSE IF Contains(msg, LitOneMinute)
        THEN timedelta(1, 0)
        ELSE IF minutes_wait_match # None
        THEN timedelta(int(Get(minutes_wait_match)[1]), 0)
        ELSE timedelta(0, 0)

\* parse_wait_time with the "<n> minutes" pattern tried before "one minute"
parse_wait_time_MinutesFirst(msg) ==
    LET wait_time_match == SearchWaitTime(msg, 1)
        minutes_wait_match == SearchMinutesWait(msg, 1)
    IN  IF wait_time_match # None
        THEN timedelta(int(Get(wait_time_match)[1]), int(Get(wait_time_match)[2]))
        ELSE IF minutes_wait_match # None
        THEN timedelta(int(Get(minutes_wait_match)[1]), 0)
        ELSE IF Contains(msg, LitOneMinute)
        THEN timedelta(1, 0)
        ELSE timedelta(0, 0)

\* parse_wait_time with one minute as the result when no pattern matches
parse_wait_time_DefaultMinute(msg) ==
    LET wait_time_match == SearchWaitTime(msg, 1)
        minutes_wait_match == SearchMinutesWait(msg, 1)
    IN  IF wait_time_match # None
        THEN timedelta(int(Get(wait_time_match)[1]), int(Get(wait_time_match)[2]))
        ELSE IF Contains(msg, LitOneMinute)
        THEN timedelta(1, 0)
        ELSE IF minutes_wait_match # None
        THEN timedelta(int(Get(minutes_wait_match)[1]), 0)
        ELSE timedelta(1, 0)

parse_wait_time(msg) ==
    LET wait_time_match == SearchWaitTime(msg, 1)
        minutes_wait_match == SearchMinutesWait(msg, 1)
    IN  IF wait_time_match # None
        THEN timedelta(int(Get(wait_time_match)[1]), int(Get(wait_time_match)[2]))
        ELSE IF Contains(msg, LitOneMinute)
        THEN timedelta(1, 0)
        ELSE IF minutes_wait_match # None
        THEN timedelta(int(Get(minutes_wait_match)[1]), 0)
        ELSE timedelta(0, 0)

(***************************************************************************)
(* parse_wait_time on its own: the messages it is applied to.              *)
(* A message is put together from the three kinds of wait wording, each     *)
(* optional, in either order, separated by a blank.                        *)
(***************************************************************************)
\* str(n) of a non-negative integer
RECURSIVE str(_)
str(n) ==
    IF n < 10 THEN <<DigitChars[n + 1]>>
    ELSE str(n \div 10) \o <<DigitChars[(n % 10) + 1]>>

NumTexts == {str(n) : n \in 0..MaxNum} \cup {<<"3","0">>, <<"0","5">>}

\* the wording around the two numbers: as the site writes it, in another letter case,
\* and without "You have"
LeftToWaitWordings ==
    { <<LitYouHave, LitM, LitLeftToWait>>,
      <<<<"y","o","u"," ","H","A","V","E"," ">>, <<"M"," ">>,
        <<"S"," ","L","e","f","t"," ","T","o"," ","W","a","i","t">>>>,
      <<<<>>, LitM, LitLeftToWait>> }
PleaseWaitTexts == {LitPleaseWait, <<"P","l","e","a","s","e"," ","W","A","I","T"," ">>,
                    <<"w","a","i","t"," ">>}

LeftToWaitPhrases ==
    {<<>>} \cup
    { w[1] \o x \o w[2] \o y \o w[3] \o end :
        w \in LeftToWaitWordings, x \in NumTexts, y \in NumTexts,
        end \in {<<".">>, <<>>} }

OneMinutePhrases == {<<>>, LitOneMinute, <<"O","n","e"," ","M","i","n","u","t","e">>}

MinutesPhrases ==
    {<<>>} \cup
    { pw \o n \o LitMinutesBefore : pw \in PleaseWaitTexts, n \in NumTexts }

Join(a, b) == IF a = <<>> THEN b ELSE IF b = <<>> THEN a ELSE a \o <<" ">> \o b

StrictPhrases ==
    { LitYouHave \o x \o LitM \o y \o LitLeftToWait \o <<".">> :
        x \in {<<"0">>, <<"3","0">>}, y \in {<<"1">>, <<"0","5">>} }

ParseMessages ==
    { Join(a, b) : a \in StrictPhrases, b \in StrictPhrases }
    \cup
    { LitYouHave \o <<"0">> \o LitM \o <<"1">> \o LitLeftToWait \o <<"\n">> }
    \cup
    { Join(Join(p1, p2), p3) :
        p1 \in LeftToWaitPhrases, p2 \in OneMinutePhrases, p3 \in MinutesPhrases }
    \cup
    { Join(Join(p3, p2), p1) :
        p1 \in LeftToWaitPhrases, p2 \in OneMinutePhrases, p3 \in MinutesPhrases }

AttemptIdle ==
    /\ pc = "menu"
    /\ args = None
    /\ answered = None
    /\ aocd_cache = None
    /\ feedback = None
    /\ current_time = None
    /\ remaining_time = 0
    /\ response = None
    /\ para_idx = 0
    /\ submit_calls = 0
    /\ refresh_calls = <<>>
    /\ countdown_iters = 0
    /\ output = <<>>
    /\ remaining_wait_time = None

\* no prompt is running
PromptIdle ==
    /\ prompt_pc = "idle"
    /\ prompt_now = None
    /\ year = None
    /\ day = None
    /\ part = None
    /\ answer = None
    /\ last_input = None
    /\ reprompts = 0

\* nothing of aoc_data is running
DataIdle ==
    /\ data_pc = "idle"
    /\ example_file = None
    /\ aocd_example = None
    /\ post_file = None
    /\ refresh_log = <<>>
    /\ fetch_result = None

\* the menu loop of main is not running
MenuIdle ==
    /\ menu_pc = "idle"
    /\ environ = [BASE_DIR |-> None, GITHUB_REPO |-> None, AOC_SESSION |-> None]
    /\ BASE_DIR = None
    /\ GITHUB_REPO = None
    /\ AOC_SESSION = None
    /\ unused_envs = {}
    /\ choice = None
    /\ feature = None

\* setup_aoc_environment is not running
ScaffoldIdle ==
    /\ scaf_pc = "idle"
    /\ year_dir_exists = FALSE
    /\ day_dirs = <<>>
    /\ scaf_day = 0
    /\ results = None
    /\ overwrite_responses = {}
    /\ removed = {}

ParseInit ==
    /\ message \in ParseMessages
    /\ wait_time = 0
    /\ parse_pc = "start"
    /\ AttemptIdle
    /\ PromptIdle
    /\ DataIdle
    /\ MenuIdle
    /\ ScaffoldIdle

\* one call of parse_wait_time(message)
ParseWaitTime ==
    /\ parse_pc = "start"
    /\ wait_time' = parse_wait_time(message)
    /\ parse_pc' = "returned"
    /\ UNCHANGED <<message, attemptVars, promptVars, dataVars, menuVars, scaffoldVars>>

ParseNext == ParseWaitTime

SpecParse == ParseInit /\ [][ParseNext]_vars

(***************************************************************************)
(* The wording of the three patterns, stated on the text itself.           *)
(***************************************************************************)
\* "<xs>m <ys>s left to wait" stands at position i, in any letter case, xs a whole number
LooseLeftToWaitAt(text, i, xs, ys) ==
    /\ MatchLit(text, i, xs)
    /\ MatchLit(text, i + Len(xs), LitM)
    /\ MatchLit(text, i + Len(xs) + Len(LitM), ys)
    /\ MatchLit(text, i + Len(xs) + Len(LitM) + Len(ys), LitLeftToWait)
    /\ (i = 1 \/ ~IsDigit(text[i - 1]))

\* "You have <xs>m <ys>s left to wait" stands at position i, in any letter case, and
\* one more character that is no newline follows it
StrictLeftToWaitAt(text, i, xs, ys) ==
    LET n == Len(LitYouHave) + Len(xs) + Len(LitM) + Len(ys) + Len(LitLeftToWait)
    IN  /\ MatchLit(text, i, LitYouHave)
        /\ LooseLeftToWaitAt(text, i + Len(LitYouHave), xs, ys)
        /\ i + n <= Len(text)
        /\ text[i + n] # "\n"

\* "wait <ns> minutes before trying again" stands at position i, in any letter case
LooseMinutesAt(text, i, ns) ==
    /\ MatchLit(text, i, <<"w","a","i","t"," ">>)
    /\ MatchLit(text, i + 5, ns)
    /\ MatchLit(text, i + 5 + Len(ns), LitMinutesBefore)

\* "please wait <ns> minutes before trying again" stands at position i, any letter case
StrictMinutesAt(text, i, ns) ==
    /\ MatchLit(text, i, <<"p","l","e","a","s","e"," ">>)
    /\ LooseMinutesAt(text, i + 7, ns)

\* the durations the leftmost occurrence of a wording stands for
Leftmost(S) == {i \in S : \A j \in S : i <= j}

LooseLeftToWaitDurations(text) ==
    LET at == {i \in 1..Len(text) :
                 \E xs \in NumTexts, ys \in NumTexts : LooseLeftToWaitAt(text, i, xs, ys)}
    IN  { timedelta(int(xs), int(ys)) :
            <<xs, ys>> \in { q \in NumTexts \X NumTexts :
                \E i \in Leftmost(at) : LooseLeftToWaitAt(text, i, q[1], q[2]) } }

StrictLeftToWaitDurations(text) ==
    LET at == {i \in 1..Len(text) :
                 \E xs \in NumTexts, ys \in NumTexts : StrictLeftToWaitAt(text, i, xs, ys)}
    IN  { timedelta(int(xs), int(ys)) :
            <<xs, ys>> \in { q \in NumTexts \X NumTexts :
                \E i \in Leftmost(at) : StrictLeftToWaitAt(text, i, q[1], q[2]) } }

LooseMinutesDurations(text) ==
    LET at == {i \in 1..Len(text) : \E ns \in NumTexts : LooseMinutesAt(text, i, ns)}
    IN  { timedelta(int(ns), 0) :
            ns \in { q \in NumTexts : \E i \in Leftmost(at) : LooseMinutesAt(text, i, q) } }

StrictMinutesDurations(text) ==
    LET at == {i \in 1..Len(text) : \E ns \in NumTexts : StrictMinutesAt(text, i, ns)}
    IN  { timedelta(int(ns), 0) :
            ns \in { q \in NumTexts : \E i \in Leftmost(at) : StrictMinutesAt(text, i, q) } }

\* C9 as stated: for every message that contains "<X>m <Y>s left to wait" (any letter
\* case, whatever text precedes it), parse_wait_time returns X minutes plus Y seconds.
C9_AnyLeftToWaitParsed ==
    parse_pc = "returned" =>
        \A d \in LooseLeftToWaitDurations(message) : wait_time = d

\* C9 as amended: for every message that contains "You have <X>m <Y>s left to wait"
\* (any letter case) followed by at least one character other than a newline,
\* parse_wait_time returns X minutes plus Y seconds of the leftmost such occurrence.
C9_YouHaveLeftToWaitParsed ==
    parse_pc = "returned" =>
        \A d \in StrictLeftToWaitDurations(message) : wait_time = d

\* C9 witness: "You have 30m 05s left to wait." was parsed to 30 minutes 5 seconds
C9_Witness ==
    /\ parse_pc = "returned"
    /\ StrictLeftToWaitDurations(message) = {timedelta(30, 5)}
    /\ wait_time = timedelta(30, 5)

\* C10 as stated: parse_wait_time returns the duration of the first pattern the message
\* matches in the order (1) "<m>m <s>s left to wait", (2) substring "one minute",
\* 60 seconds, (3) "wait <n> minutes before trying again" in any letter case, n minutes.
C10_PriorityOfStatedPatterns ==
    parse_pc = "returned" =>
        IF LooseLeftToWaitDurations(message) # {}
        THEN wait_time \in LooseLeftToWaitDurations(message)
        ELSE IF Contains(message, LitOneMinute)
        THEN wait_time = timedelta(1, 0)
        ELSE LooseMinutesDurations(message) # {}
                => wait_time \in LooseMinutesDurations(message)

\* C10 as amended: parse_wait_time returns the duration of the first pattern the message
\* matches in the order (1) "You have <m>m <s>s left to wait" in any letter case and
\* followed by a character other than a newline, (2) substring "one minute" in lower
\* case, 60 seconds, (3) "please wait <n> minutes before trying again" in any letter
\* case, n minutes; of several occurrences of a pattern the leftmost counts.
C10_PriorityOfCodePatterns ==
    parse_pc = "returned" =>
        IF StrictLeftToWaitDurations(message) # {}
        THEN wait_time \in StrictLeftToWaitDurations(message)
        ELSE IF Contains(message, LitOneMinute)
        THEN wait_time = timedelta(1, 0)
        ELSE StrictMinutesDurations(message) # {}
                => wait_time \in StrictMinutesDurations(message)

\* C10 witness: a message with "one minute" and "please wait 30 minutes before trying
\* again" and no first pattern was parsed to 60 seconds
C10_Witness ==
    /\ parse_pc = "returned"
    /\ StrictLeftToWaitDurations(message) = {}
    /\ Contains(message, LitOneMinute)
    /\ StrictMinutesDurations(message) = {timedelta(30, 0)}
    /\ wait_time = timedelta(1, 0)

(***************************************************************************)
(* The feedback cache (.aocd_cache): per-day files *_post.json, each a      *)
(* JSON list of entries {"part", "message", "when"}.                       *)
(***************************************************************************)
MsgWait == <<"Y","o","u"," ","h","a","v","e"," ","0","m"," ","1","s"," ","l","e","f","t",
             " ","t","o"," ","w","a","i","t",".">>
MsgNotRight == <<"T","h","a","t","'","s"," ","n","o","t"," ","t","h","e"," ","r","i","g",
                 "h","t"," ","a","n","s","w","e","r",".">>
MsgWaitUnknown == <<"P","l","e","a","s","e"," ","w","a","i","t"," ","a"," ","b","i","t",".">>

\* the messages of the entries
CacheMessages == {MsgWait, MsgNotRight, MsgWaitUnknown}

\* an entry: has_when is FALSE when the entry has no parsable "when"
CacheEntries ==
    [has_when : {TRUE}, when : 0..MaxWhen, message : CacheMessages]
    \cup {[has_when |-> FALSE, when |-> 0, message |-> MsgWait]}

\* the client appends an entry at the end of its file: timestamps do not decrease
AppendOrdered(d) ==
    \A k \in 1..(Len(d) - 1) :
        (d[k].has_when /\ d[k + 1].has_when) => d[k].when <= d[k + 1].when

\* a file: valid is FALSE when json.load cannot read it
FilesOfAtMost(n) ==
    {[valid |-> FALSE, data |-> <<>>]}
    \cup UNION { {[valid |-> TRUE, data |-> d] :
                     d \in {x \in [1..k -> CacheEntries] : AppendOrdered(x)}} : k \in 0..n }

\* the lists of at most f files that hold at most n entries together
RECURSIVE FileListsOfAtMost(_, _)
FileListsOfAtMost(f, n) ==
    {<<>>} \cup
    (IF f = 0 THEN {}
     ELSE UNION { { <<file>> \o rest : rest \in FileListsOfAtMost(f - 1, n - Len(file.data)) } :
                    file \in FilesOfAtMost(n) })

\* what the cache root holds: it may not exist
CacheStates ==
    {[exists |-> FALSE, files |-> <<>>]}
    \cup {[exists |-> TRUE, files |-> fs] : fs \in FileListsOfAtMost(MaxFiles, MaxCacheEntries)}

Raised == [raised |-> TRUE, value |-> None]
Returned(v) == [raised |-> FALSE, value |-> v]

\* the loop of read_last_submission_feedback over aocd_cache[i..]
RECURSIVE ReadLoop(_, _, _, _)
ReadLoop(files, i, latest_valid_feedback, latest_submission_time) ==
    IF i > Len(files) THEN Returned(latest_valid_feedback)
    ELSE IF ~files[i].valid THEN Raised
    ELSE IF files[i].data = <<>>
    THEN ReadLoop(files, i + 1, latest_valid_feedback, latest_submission_time)
    ELSE LET latest_feedback == files[i].data[Len(files[i].data)]
         IN  IF ~latest_feedback.has_when THEN Raised
             ELSE IF /\ Contains(latest_feedback.message, LitWait)
                     /\ \/ latest_submission_time = None
                        \/ latest_feedback.when > Get(latest_submission_time)
             THEN ReadLoop(files, i + 1, Some(latest_feedback), Some(latest_feedback.when))
             ELSE ReadLoop(files, i + 1, latest_valid_feedback, latest_submission_time)

\* the loop with the first entry that says "wait" kept, whatever its time
RECURSIVE ReadLoopKeepFirst(_, _, _)
ReadLoopKeepFirst(files, i, latest_valid_feedback) ==
    IF i > Len(files) THEN Returned(latest_valid_feedback)
    ELSE IF ~files[i].valid THEN Raised
    ELSE IF files[i].data = <<>> THEN ReadLoopKeepFirst(files, i + 1, latest_valid_feedback)
    ELSE LET latest_feedback == files[i].data[Len(files[i].data)]
         IN  IF ~latest_feedback.has_when THEN Raised
             ELSE IF /\ Contains(latest_feedback.message, LitWait)
                     /\ latest_valid_feedback = None
             THEN ReadLoopKeepFirst(files, i + 1, Some(latest_feedback))
             ELSE ReadLoopKeepFirst(files, i + 1, latest_valid_feedback)

read_last_submission_feedback_KeepFirst(cache) ==
    IF ~cache.exists THEN Returned(None)
    ELSE ReadLoopKeepFirst(cache.files, 1, None)

read_last_submission_feedback(cache) ==
    IF ~cache.exists THEN Returned(None)
    ELSE ReadLoop(cache.files, 1, None, None)

\* the test "feedback and 'wait' in feedback.get('message', '')"
Qualifies(fb) == fb # None /\ Contains(Get(fb).message, LitWait)

\* max(remaining_time, timedelta(0))
Max(a, b) == IF a >= b THEN a ELSE b

\* calculate_remaining_wait_time without the max(..., timedelta(0))
RemainingWait_NoMax(fb, now) ==
    IF Qualifies(fb)
    THEN parse_wait_time(Get(fb).message) - (now - Get(fb).when)
    ELSE timedelta(0, 0)

\* calculate_remaining_wait_time with one minute as the result without feedback
RemainingWait_DefaultMinute(fb, now) ==
    IF Qualifies(fb)
    THEN Max(parse_wait_time(Get(fb).message) - (now - Get(fb).when), 0)
    ELSE timedelta(1, 0)

\* the value calculate_remaining_wait_time returns for this feedback at time now
RemainingWait(fb, now) ==
    IF Qualifies(fb)
    THEN LET wt == parse_wait_time(Get(fb).message)
             submission_time == Get(fb).when
             elapsed_time == now - submission_time
             remaining == wt - elapsed_time
         IN  Max(remaining, 0)
    ELSE timedelta(0, 0)

\* the values datetime.now() takes: 0..MaxNow, and 5 seconds past the end of the wait
NowChoices(fb) ==
    (0..MaxNow) \cup
    {Get(fb).when + parse_wait_time(Get(fb).message) + 5 * TicksPerSecond}

(***************************************************************************)
(* The response to a submission. A paragraph is the list of its sentences; *)
(* a marker is in a paragraph when it is one of them.                      *)
(***************************************************************************)
RightAnswer == "That's the right answer!"
NotRightAnswer == "That's not the right answer."
CompletedDay == "You have completed Day"
ContinueToPartTwo == "[Continue to Part Two]"
WrongLevel == "You don't seem to be solving the right level."

ParagraphTexts ==
    { <<RightAnswer, ContinueToPartTwo>>,
      <<RightAnswer, CompletedDay>>,
      <<ContinueToPartTwo, CompletedDay>>,
      <<RightAnswer>>,
      <<NotRightAnswer>>,
      <<WrongLevel>> }

\* what submit() gave: it raised, or the markup it returned
SubmitRaised == [raised |-> TRUE, article |-> FALSE, paragraphs |-> <<>>]

Responses ==
    {[raised |-> FALSE, article |-> FALSE, paragraphs |-> <<>>]}
    \cup UNION { {[raised |-> FALSE, article |-> TRUE, paragraphs |-> ps] :
                     ps \in [1..k -> ParagraphTexts]} : k \in 0..MaxParagraphs }

\* marker in text
InText(marker, text) == \E k \in 1..Len(text) : text[k] = marker

\* text.split(marker)[0]: the text before the first occurrence of the marker
BeforeMarker(text, marker) ==
    SubSeq(text, 1, (CHOOSE k \in 1..Len(text) :
                        text[k] = marker /\ \A j \in 1..(k - 1) : text[j] # marker) - 1)

Puzzles ==
    {[year |-> 2023, day |-> 1, part |-> "a"], [year |-> 2024, day |-> 25, part |-> "b"]}

Printed(kind, detail) == [kind |-> kind, detail |-> detail]

(***************************************************************************)
(* main's menu loop, option 3, and submit_answer_attempt.                  *)
(*   pc: "menu"        main waits for a menu choice                        *)
(*       "status"      submit_answer_attempt is about to query the status  *)
(*       "cooldown"    about to call calculate_remaining_wait_time         *)
(*       "gate"        about to test remaining_wait_time                   *)
(*       "waiting"     in the loop of display_countdown_timer              *)
(*       "submitting"  about to call submit                                *)
(*       "classifying" in the response handling after submit returned      *)
(*       "returned"    submit_answer_attempt returned to main              *)
(*       "crashed"     an exception left main                              *)
(*       "exited"      main ended on choice 5                              *)
(***************************************************************************)
Init ==
    /\ message = <<>>
    /\ wait_time = 0
    /\ parse_pc = "start"
    /\ AttemptIdle
    /\ PromptIdle
    /\ DataIdle
    /\ MenuIdle
    /\ ScaffoldIdle

\* main, choice "3": submit_answer prompts for the puzzle and the answer and calls
\* submit_answer_attempt
SubmitAnswer ==
    /\ pc = "menu"
    /\ \E p \in Puzzles : args' = Some(p)
    /\ pc' = "status"
    /\ UNCHANGED <<answered, aocd_cache, feedback, current_time, remaining_time,
                   response, para_idx, submit_calls, refresh_calls, countdown_iters,
                   output>>
    /\ UNCHANGED <<remaining_wait_time, otherVars>>

\* the status query without the return after "already been submitted"
CheckStatus_NoReturn ==
    /\ pc = "status"
    /\ \/ /\ answered' = Some(TRUE)
          /\ output' = Append(output, Printed("already_submitted", Get(args)))
          /\ pc' = "cooldown"
       \/ /\ answered' = Some(FALSE)
          /\ pc' = "cooldown"
          /\ UNCHANGED output
       \/ /\ pc' = "crashed"
          /\ UNCHANGED <<answered, output>>
    /\ UNCHANGED <<args, aocd_cache, feedback, current_time, remaining_time, response,
                   para_idx, submit_calls, refresh_calls, countdown_iters>>
    /\ UNCHANGED <<remaining_wait_time, otherVars>>

\* puzzle.answered(part): already answered, not answered, or the query raises
CheckStatus ==
    /\ pc = "status"
    /\ \/ /\ answered' = Some(TRUE)
          /\ output' = Append(output, Printed("already_submitted", Get(args)))
          /\ pc' = "returned"
       \/ /\ answered' = Some(FALSE)
          /\ pc' = "cooldown"
          /\ UNCHANGED output
       \/ /\ pc' = "crashed"
          /\ UNCHANGED <<answered, output>>
    /\ UNCHANGED <<args, aocd_cache, feedback, current_time, remaining_time, response,
                   para_idx, submit_calls, refresh_calls, countdown_iters>>
    /\ UNCHANGED <<remaining_wait_time, otherVars>>

\* remaining_wait_time = calculate_remaining_wait_time()
CalculateRemainingWaitTime ==
    /\ pc = "cooldown"
    /\ \E cache \in CacheStates :
        LET r == read_last_submission_feedback(cache)
        IN  /\ aocd_cache' = Some(cache)
            /\ \/ /\ r.raised
                  /\ pc' = "crashed"
                  /\ UNCHANGED <<feedback, current_time, remaining_time,
                                 remaining_wait_time>>
               \/ /\ ~r.raised
                  /\ ~Qualifies(r.value)
                  /\ feedback' = r.value
                  /\ remaining_time' = RemainingWait(r.value, 0)
                  /\ remaining_wait_time' = Some(RemainingWait(r.value, 0))
                  /\ pc' = "gate"
                  /\ UNCHANGED current_time
               \/ /\ ~r.raised
                  /\ Qualifies(r.value)
                  /\ \E t \in NowChoices(r.value) :
                        /\ current_time' = Some(t)
                        /\ remaining_time' = RemainingWait(r.value, t)
                        /\ remaining_wait_time' = Some(RemainingWait(r.value, t))
                  /\ feedback' = r.value
                  /\ pc' = "gate"
    /\ UNCHANGED <<args, answered, response, para_idx, submit_calls, refresh_calls,
                   countdown_iters, output>>
    /\ UNCHANGED otherVars

\* if remaining_wait_time.total_seconds() > 0: ... else: ...
\* (the locals of calculate_remaining_wait_time are gone)
CooldownGate ==
    /\ pc = "gate"
    /\ pc' = IF remaining_time > 0 THEN "waiting" ELSE "submitting"
    /\ aocd_cache' = None
    /\ feedback' = None
    /\ current_time' = None
    /\ UNCHANGED <<args, answered, remaining_time, response, para_idx, submit_calls,
                   refresh_calls, countdown_iters, output>>
    /\ UNCHANGED <<remaining_wait_time, otherVars>>

\* int(remaining_time.total_seconds())
WholeSeconds(t) == t \div TicksPerSecond

\* the iteration that takes one tick off the remaining time
CountdownIteration_OneTick ==
    /\ pc = "waiting"
    /\ remaining_time > 0
    /\ output' = Append(output,
            Printed("timer", <<WholeSeconds(remaining_time) \div 60,
                               WholeSeconds(remaining_time) % 60>>))
    /\ remaining_time' = remaining_time - 1
    /\ countdown_iters' = countdown_iters + 1
    /\ UNCHANGED <<pc, args, answered, aocd_cache, feedback, current_time, response, para_idx,
                   submit_calls, refresh_calls>>
    /\ UNCHANGED <<remaining_wait_time, otherVars>>

\* display_countdown_timer, one iteration of the loop
CountdownIteration ==
    /\ pc = "waiting"
    /\ remaining_time > 0
    /\ output' = Append(output,
            Printed("timer", <<WholeSeconds(remaining_time) \div 60,
                               WholeSeconds(remaining_time) % 60>>))
    /\ remaining_time' = remaining_time - timedelta(0, 1)
    /\ countdown_iters' = countdown_iters + 1
    /\ UNCHANGED <<pc, args, answered, aocd_cache, feedback, current_time, response, para_idx,
                   submit_calls, refresh_calls>>
    /\ UNCHANGED <<remaining_wait_time, otherVars>>

\* display_countdown_timer, after the loop; submit_answer_attempt then returns
CountdownDone ==
    /\ pc = "waiting"
    /\ remaining_time <= 0
    /\ output' = Append(output, Printed("may_submit", <<>>))
    /\ pc' = "returned"
    /\ UNCHANGED <<args, answered, aocd_cache, feedback, current_time, remaining_time, response,
                   para_idx, submit_calls, refresh_calls, countdown_iters>>
    /\ UNCHANGED <<remaining_wait_time, otherVars>>

\* submit with one retry after an error
Submit_Retry ==
    /\ pc = "submitting"
    /\ \/ /\ submit_calls' = submit_calls + 2
          /\ response' = Some(SubmitRaised)
          /\ output' = Append(output, Printed("error", <<"submit">>))
          /\ pc' = "returned"
          /\ UNCHANGED para_idx
       \/ /\ submit_calls' = submit_calls + 1
          /\ \E r \in Responses : response' = Some(r)
          /\ para_idx' = 1
          /\ pc' = "classifying"
          /\ UNCHANGED output
    /\ UNCHANGED <<args, answered, aocd_cache, feedback, current_time, remaining_time,
                   refresh_calls, countdown_iters>>
    /\ UNCHANGED <<remaining_wait_time, otherVars>>

\* submit(answer, ...): it returns a response or raises; response.data is parsed
Submit ==
    /\ pc = "submitting"
    /\ submit_calls' = submit_calls + 1
    /\ \/ /\ response' = Some(SubmitRaised)
          /\ output' = Append(output, Printed("error", <<"submit">>))
          /\ pc' = "returned"
          /\ UNCHANGED para_idx
       \/ /\ \E r \in Responses : response' = Some(r)
          /\ para_idx' = 1
          /\ pc' = "classifying"
          /\ UNCHANGED output
    /\ UNCHANGED <<args, answered, aocd_cache, feedback, current_time, remaining_time,
                   refresh_calls, countdown_iters>>
    /\ UNCHANGED <<remaining_wait_time, otherVars>>

\* article is None, and nothing is printed
NoArticle_Silent ==
    /\ pc = "classifying"
    /\ ~Get(response).article
    /\ pc' = "returned"
    /\ UNCHANGED <<args, answered, aocd_cache, feedback, current_time, remaining_time, response,
                   para_idx, submit_calls, refresh_calls, countdown_iters, output>>
    /\ UNCHANGED <<remaining_wait_time, otherVars>>

\* article is None: print("\nFailed to submit answer.")
NoArticle ==
    /\ pc = "classifying"
    /\ ~Get(response).article
    /\ output' = Append(output, Printed("failed_to_submit", <<>>))
    /\ pc' = "returned"
    /\ UNCHANGED <<args, answered, aocd_cache, feedback, current_time, remaining_time, response,
                   para_idx, submit_calls, refresh_calls, countdown_iters>>
    /\ UNCHANGED <<remaining_wait_time, otherVars>>

\* one iteration of "for paragraph in paragraphs"
ClassifyParagraph ==
    /\ pc = "classifying"
    /\ Get(response).article
    /\ para_idx <= Len(Get(response).paragraphs)
    /\ LET text == Get(response).paragraphs[para_idx]
       IN  IF InText(CompletedDay, text)
           THEN /\ output' = Append(output,
                        Printed("completion", BeforeMarker(text, CompletedDay)))
                /\ pc' = "returned"
                /\ UNCHANGED <<para_idx, refresh_calls>>
           ELSE IF InText(ContinueToPartTwo, text)
           THEN /\ refresh_calls' = Append(refresh_calls, <<Get(args).day, Get(args).year>>)
                /\ \/ /\ para_idx' = para_idx + 1
                      /\ UNCHANGED <<pc, output>>
                   \/ /\ output' = Append(output, Printed("error", <<"refresh">>))
                      /\ pc' = "returned"
                      /\ UNCHANGED para_idx
           ELSE /\ para_idx' = para_idx + 1
                /\ UNCHANGED <<pc, output, refresh_calls>>
    /\ UNCHANGED <<args, answered, aocd_cache, feedback, current_time, remaining_time, response,
                   submit_calls, countdown_iters>>
    /\ UNCHANGED <<remaining_wait_time, otherVars>>

\* the loop over the paragraphs ended without a break
ClassifyEnd ==
    /\ pc = "classifying"
    /\ Get(response).article
    /\ para_idx > Len(Get(response).paragraphs)
    /\ pc' = "returned"
    /\ UNCHANGED <<args, answered, aocd_cache, feedback, current_time, remaining_time, response,
                   para_idx, submit_calls, refresh_calls, countdown_iters, output>>
    /\ UNCHANGED <<remaining_wait_time, otherVars>>

\* main: input("\nPress Enter to continue...") and the next turn of the menu loop
BackToMenu ==
    /\ pc = "returned"
    /\ pc' = "menu"
    /\ args' = None
    /\ answered' = None
    /\ aocd_cache' = None
    /\ feedback' = None
    /\ current_time' = None
    /\ remaining_time' = 0
    /\ response' = None
    /\ para_idx' = 0
    /\ submit_calls' = 0
    /\ refresh_calls' = <<>>
    /\ countdown_iters' = 0
    /\ output' = <<>>
    /\ remaining_wait_time' = None
    /\ UNCHANGED otherVars

\* main, choice "5"
Exit ==
    /\ pc = "menu"
    /\ pc' = "exited"
    /\ UNCHANGED <<args, answered, aocd_cache, feedback, current_time, remaining_time, response,
                   para_idx, submit_calls, refresh_calls, countdown_iters, output>>
    /\ UNCHANGED <<remaining_wait_time, otherVars>>

Next ==
    \/ SubmitAnswer
    \/ CheckStatus
    \/ CalculateRemainingWaitTime
    \/ CooldownGate
    \/ CountdownIteration
    \/ CountdownDone
    \/ Submit
    \/ NoArticle
    \/ ClassifyParagraph
    \/ ClassifyEnd
    \/ BackToMenu
    \/ Exit

Spec == Init /\ [][Next]_vars

\* the loop of display_countdown_timer is sequential code: an iteration that can run, runs
FairSpec == Spec /\ WF_vars(CountdownIteration) /\ WF_vars(CountdownDone)

(***************************************************************************)
(* The claims about submit_answer_attempt.                                 *)
(***************************************************************************)
\* C1: when puzzle.answered(part) reports the part as answered, the attempt ends there:
\* "already submitted" is all it prints, submit is not called, the cooldown is not
\* computed and the countdown is not run.
C1_AlreadyAnsweredStops ==
    answered = Some(TRUE) =>
        /\ pc = "returned"
        /\ output = <<Printed("already_submitted", Get(args))>>
        /\ submit_calls = 0
        /\ aocd_cache = None
        /\ feedback = None
        /\ remaining_time = 0
        /\ countdown_iters = 0

C1_Witness == answered = Some(TRUE) /\ pc = "returned"

\* C2: when the part is not answered and the remaining cooldown is positive, the
\* countdown runs and, once it is over, submit is called in the same invocation: an
\* attempt that returned after a countdown has made its submission.
C2_CountdownThenSubmit ==
    (pc = "returned" /\ countdown_iters > 0) => submit_calls = 1

\* C3: an invocation calls submit at most once; when that call raises, the error is
\* caught and printed and the attempt ends with no second call and no example refresh.
C3_SubmitOnceErrorCaught ==
    /\ submit_calls <= 1
    /\ (response # None /\ Get(response).raised) =>
            /\ pc = "returned"
            /\ submit_calls = 1
            /\ refresh_calls = <<>>
            /\ output # <<>>
            /\ output[Len(output)] = Printed("error", <<"submit">>)

C3_Witness == response = Some(SubmitRaised) /\ pc = "returned" /\ submit_calls = 1

\* a file json.load cannot read, or a file whose last entry has no parsable "when"
Malformed(file) ==
    \/ ~file.valid
    \/ file.data # <<>> /\ ~file.data[Len(file.data)].has_when

\* C4: a malformed feedback file in the cache is skipped: the cooldown computation
\* returns and the attempt reaches the cooldown decision, it does not end in an error.
C4_MalformedFileSkipped ==
    (aocd_cache # None /\ \E i \in 1..Len(Get(aocd_cache).files) :
                              Malformed(Get(aocd_cache).files[i]))
        => pc = "gate"

\* C5: no error raised during a submission attempt leaves submit_answer_attempt; main
\* always gets back to its menu.
C5_NoErrorLeavesAttempt == pc # "crashed"

\* the entries of the readable files of the cache, and the last entry of file i
AllEntries(cache) ==
    UNION { {cache.files[i].data[k] : k \in 1..Len(cache.files[i].data)} :
              i \in 1..Len(cache.files) }

LastEntry(cache, i) == cache.files[i].data[Len(cache.files[i].data)]

SaysWait(entry) == entry.has_when /\ Contains(entry.message, LitWait)

\* C6 as stated: read_last_submission_feedback returns the entry with the greatest
\* timestamp among all entries of all files whose message says "wait", also when that
\* entry is not the last one of its file.
C6_LatestOfAllEntries ==
    pc = "gate" =>
        LET waits == {e \in AllEntries(Get(aocd_cache)) : SaysWait(e)}
        IN  IF waits = {} THEN feedback = None
            ELSE /\ feedback # None
                 /\ Get(feedback) \in waits
                 /\ \A e \in waits : e.when <= Get(feedback).when

\* C6 as amended: whenever it returns, read_last_submission_feedback returns the entry
\* with the greatest timestamp among the LAST entries of the per-day feedback files of
\* the cache (any year and day) whose message contains "wait", the one of the first such
\* file in glob order when several share that timestamp, and None when there is none;
\* an entry that is followed by a later entry in its file is never considered.
C6_LatestOfLastEntries ==
    pc = "gate" =>
        LET cache == Get(aocd_cache)
            waits == {i \in 1..Len(cache.files) :
                        cache.files[i].data # <<>> /\ SaysWait(LastEntry(cache, i))}
        IN  IF waits = {} THEN feedback = None
            ELSE \E i \in waits :
                    /\ feedback = Some(LastEntry(cache, i))
                    /\ \A j \in waits :
                          /\ LastEntry(cache, j).when <= LastEntry(cache, i).when
                          /\ j < i => LastEntry(cache, j).when < LastEntry(cache, i).when

\* C6 witness: two files end in a "wait" entry, the second one the later, and the later
\* one was returned
C6_Witness ==
    /\ pc = "gate"
    /\ Len(Get(aocd_cache).files) = 2
    /\ \A i \in 1..2 : /\ Get(aocd_cache).files[i].data # <<>>
                       /\ SaysWait(LastEntry(Get(aocd_cache), i))
    /\ LastEntry(Get(aocd_cache), 1).when < LastEntry(Get(aocd_cache), 2).when
    /\ feedback = Some(LastEntry(Get(aocd_cache), 2))

\* C7: for the feedback entry found, with timestamp T and parsed wait W, and the current
\* time now, calculate_remaining_wait_time returns max(0, W - (now - T)): never a negative
\* value, W - (now - T) while now < T + W, and zero from T + W on.
C7_RemainingIsClampedDifference ==
    (pc = "gate" /\ Qualifies(feedback)) =>
        LET T == Get(feedback).when
            W == parse_wait_time(Get(feedback).message)
            now == Get(current_time)
        IN  /\ remaining_time >= 0
            /\ now < T + W => remaining_time = W - (now - T)
            /\ now >= T + W => remaining_time = 0

\* C7 witness: 5 seconds after the end of a one-second wait the remaining time is zero
C7_Witness ==
    /\ pc = "gate"
    /\ Qualifies(feedback)
    /\ parse_wait_time(Get(feedback).message) = timedelta(0, 1)
    /\ Get(current_time) = Get(feedback).when + timedelta(0, 1) + timedelta(0, 5)
    /\ remaining_time = 0

\* C8: when no entry of the feedback history says "wait", and when the cache root does
\* not exist, calculate_remaining_wait_time returns zero and the attempt goes from the
\* cooldown decision straight to the submission, without a countdown.
C8_NoWaitNoCooldown ==
    [][ (pc = "gate" /\ \A e \in AllEntries(Get(aocd_cache)) :
                            ~Contains(e.message, LitWait))
            => /\ remaining_time = 0
               /\ pc' = "submitting"
               /\ countdown_iters' = 0
               /\ output' = output ]_vars

\* C8 witness: the cache holds entries, none says "wait", and zero was returned
C8_Witness ==
    /\ pc = "gate"
    /\ AllEntries(Get(aocd_cache)) # {}
    /\ \A e \in AllEntries(Get(aocd_cache)) : ~Contains(e.message, LitWait)
    /\ remaining_time = 0

\* the message matches none of the three patterns of parse_wait_time
NoWaitPattern(msg) ==
    /\ StrictLeftToWaitDurations(msg) = {}
    /\ ~Contains(msg, LitOneMinute)
    /\ StrictMinutesDurations(msg) = {}

\* the messages of the cache that say "wait" and match none of the three patterns
UnknownWaitMessages == {m \in CacheMessages : Contains(m, LitWait) /\ NoWaitPattern(m)}

\* the latest feedback entry has such a message
UnknownWait == feedback # None /\ Get(feedback).message \in UnknownWaitMessages

\* C11, as stated: when the latest feedback entry says "wait" in a message that matches
\* none of the three patterns, the wait time parsed is zero and so is the remaining
\* cooldown, whatever the time of the entry and the current time.
C11_UnknownWaitNoCooldown ==
    (pc = "gate" /\ UnknownWait)
        => /\ parse_wait_time(Get(feedback).message) = timedelta(0, 0)
           /\ remaining_time = 0

\* C11, amended: when the latest feedback entry says "wait" in a message that matches none
\* of the three patterns, the wait time parsed is zero; when moreover the current time is
\* not before the time of the entry, the remaining cooldown is zero and the attempt goes
\* on to submit without a countdown.
C11_UnknownWaitSubmitsAtOnce ==
    [][ (pc = "gate" /\ UnknownWait)
            => /\ parse_wait_time(Get(feedback).message) = timedelta(0, 0)
               /\ Get(current_time) >= Get(feedback).when
                    => /\ remaining_time = 0
                       /\ pc' = "submitting"
                       /\ countdown_iters' = 0 ]_vars

\* an attempt is about to submit after an entry with an unrecognised "wait" message
C11_Witness ==
    /\ pc = "gate"
    /\ UnknownWait
    /\ Get(feedback).message = MsgWaitUnknown
    /\ Get(current_time) > Get(feedback).when
    /\ remaining_time = 0

\* C11, the parser alone (SpecParse): every message that matches none of the three
\* patterns is parsed to the zero duration.
C11_UnmatchedParsesToZero ==
    (parse_pc = "returned" /\ NoWaitPattern(message)) => wait_time = timedelta(0, 0)

(***************************************************************************)
(* The claims about the handling of the response.                          *)
(***************************************************************************)
\* submit returned markup
HasMarkup == response # None /\ ~Get(response).raised

\* what the attempt printed has an entry of this kind
PrintedKind(kind) == \E k \in 1..Len(output) : output[k].kind = kind

\* C12: when the markup of the response has no article, the attempt tells the operator
\* that the submission failed and that is all it prints: no completion message, and
\* check_and_update_example_input is not called.
C12_NoArticleFailedToSubmit ==
    (HasMarkup /\ ~Get(response).article)
        => /\ refresh_calls = <<>>
           /\ ~PrintedKind("completion")
           /\ pc = "returned" => output = <<Printed("failed_to_submit", <<>>)>>

\* an attempt ended on markup without an article
C12_Witness ==
    /\ HasMarkup
    /\ ~Get(response).article
    /\ pc = "returned"
    /\ output = <<Printed("failed_to_submit", <<>>)>>

\* a paragraph of the article of the response holds the marker
ArticleHas(marker) ==
    /\ HasMarkup
    /\ Get(response).article
    /\ \E k \in 1..Len(Get(response).paragraphs) : InText(marker, Get(response).paragraphs[k])

\* C13: when the article of the response holds "[Continue to Part Two]", in one paragraph
\* or in several, and no completion message, the attempt ends with exactly one call of
\* check_and_update_example_input, for the day and year submitted.
C13_ContinueRefreshesOnce ==
    (pc = "returned" /\ ArticleHas(ContinueToPartTwo) /\ ~ArticleHas(CompletedDay))
        => refresh_calls = << <<Get(args).day, Get(args).year>> >>

\* C14: when the article of the response holds neither "You have completed Day" nor
\* "[Continue to Part Two]" and says "That's the right answer" or "That's not the right
\* answer", the attempt does not end without telling the operator an outcome.
C14_VerdictIsReported ==
    ( /\ pc = "returned"
      /\ ~ArticleHas(CompletedDay)
      /\ ~ArticleHas(ContinueToPartTwo)
      /\ ArticleHas(RightAnswer) \/ ArticleHas(NotRightAnswer) )
        => output # <<>>

(***************************************************************************)
(* The prompts of submit_answer: get_day_and_year, then                     *)
(* prompt_for_part_and_answer.                                              *)
(*   prompt_pc: "year", "day"   the loops of get_day_and_year               *)
(*              "part"          the loop of prompt_for_part_and_answer      *)
(*              "answer"        its input("Enter the answer: ")             *)
(*              "returned"      both have returned                          *)
(***************************************************************************)
AOC_DAYS == 25

\* str.strip(): the text without its leading and trailing whitespace
IsSpace(c) == c \in {" ", "\n"}

strip(text) ==
    IF \A k \in 1..Len(text) : IsSpace(text[k]) THEN <<>>
    ELSE LET first == CHOOSE i \in 1..Len(text) :
                        ~IsSpace(text[i]) /\ \A j \in 1..(i - 1) : IsSpace(text[j])
             last == CHOOSE i \in 1..Len(text) :
                        ~IsSpace(text[i]) /\ \A j \in (i + 1)..Len(text) : IsSpace(text[j])
         IN  SubSeq(text, first, last)

\* str.lower()
lower(text) == [k \in 1..Len(text) |-> Lower(text[k])]

\* int(text) of a text without underscores: an optional sign and decimal digits, or
\* ValueError
int_or_ValueError(text) ==
    LET t == strip(text)
        signed == t # <<>> /\ t[1] \in {"+", "-"}
        digits == IF signed THEN Tail(t) ELSE t
    IN  IF digits = <<>> \/ \E k \in 1..Len(digits) : ~IsDigit(digits[k])
        THEN Raised
        ELSE Returned(IF signed /\ t[1] = "-" THEN 0 - int(digits) ELSE int(digits))

\* default_year, default_day: set from the 1st to the 25th of December only
default_year(n) == IF n.month = 12 /\ 1 <= n.day /\ n.day <= 25 THEN Some(n.year) ELSE None
default_day(n) == IF n.month = 12 /\ 1 <= n.day /\ n.day <= 25 THEN Some(n.day) ELSE None

\* x = input(...).strip(); int(x) if x else default
ReadNumber(text, default) ==
    IF strip(text) = <<>> THEN Returned(default)
    ELSE LET r == int_or_ValueError(strip(text))
         IN  IF r.raised THEN Raised ELSE Returned(Some(r.value))

\* the test of the year with the lower bound left out
YearAccepted_NoLowerBound(r, n) ==
    /\ ~r.raised
    /\ r.value # None
    /\ Get(r.value) # 0
    /\ Get(r.value) <= n.year

\* no ValueError, and "year and (2015 <= year <= now.year)"
YearAccepted(r, n) ==
    /\ ~r.raised
    /\ r.value # None
    /\ Get(r.value) # 0
    /\ 2015 <= Get(r.value)
    /\ Get(r.value) <= n.year

\* no ValueError, and "day and (1 <= day <= AOC_DAYS)"
DayAccepted(r) ==
    /\ ~r.raised
    /\ r.value # None
    /\ Get(r.value) # 0
    /\ 1 <= Get(r.value)
    /\ Get(r.value) <= AOC_DAYS

\* part in ["a", "b"], for part = input(...).strip().lower()
PartAccepted(text) == lower(strip(text)) \in {<<"a">>, <<"b">>}

\* datetime.now(): in the first year of the puzzles or a later one, inside and outside
\* the days of December that give a default
NowDates ==
    {[year |-> y, month |-> md[1], day |-> md[2]] :
        y \in {2015, 2024}, md \in {<<12, 1>>, <<12, 25>>, <<12, 26>>, <<11, 30>>}}

\* what the operator types at a prompt
PromptInputs ==
    { <<>>,
      <<" ">>,
      <<"2","0","1","5">>,
      <<" ","2","0","2","4"," ">>,
      <<"2","0","1","4">>,
      <<"2","0","2","5">>,
      <<"0">>,
      <<"-","1">>,
      <<"1","2","a">>,
      <<"1">>,
      <<"2","5">>,
      <<"2","6">>,
      <<"a">>,
      <<"A"," ">>,
      <<"b">>,
      <<"c">>,
      <<"a","b">> }

PromptInit ==
    /\ message = <<>>
    /\ wait_time = 0
    /\ parse_pc = "start"
    /\ AttemptIdle
    /\ DataIdle
    /\ MenuIdle
    /\ ScaffoldIdle
    /\ prompt_pc = "year"
    /\ prompt_now \in {Some(n) : n \in NowDates}
    /\ year = None
    /\ day = None
    /\ part = None
    /\ answer = None
    /\ last_input = None
    /\ reprompts = 0

\* get_day_and_year, one turn of the first loop
PromptYear ==
    /\ prompt_pc = "year"
    /\ \E text \in PromptInputs :
        LET r == ReadNumber(text, default_year(Get(prompt_now)))
        IN  IF YearAccepted(r, Get(prompt_now))
            THEN /\ year' = r.value
                 /\ prompt_pc' = "day"
                 /\ last_input' = None
                 /\ reprompts' = 0
            ELSE /\ reprompts < MaxReprompts
                 /\ last_input' = Some(text)
                 /\ reprompts' = reprompts + 1
                 /\ UNCHANGED <<year, prompt_pc>>
    /\ UNCHANGED <<prompt_now, day, part, answer>>
    /\ UNCHANGED <<parseVars, attemptVars, dataVars, menuVars, scaffoldVars>>

\* get_day_and_year, one turn of the second loop
PromptDay ==
    /\ prompt_pc = "day"
    /\ \E text \in PromptInputs :
        LET r == ReadNumber(text, default_day(Get(prompt_now)))
        IN  IF DayAccepted(r)
            THEN /\ day' = r.value
                 /\ prompt_pc' = "part"
                 /\ last_input' = None
                 /\ reprompts' = 0
            ELSE /\ reprompts < MaxReprompts
                 /\ last_input' = Some(text)
                 /\ reprompts' = reprompts + 1
                 /\ UNCHANGED <<day, prompt_pc>>
    /\ UNCHANGED <<prompt_now, year, part, answer>>
    /\ UNCHANGED <<parseVars, attemptVars, dataVars, menuVars, scaffoldVars>>

\* prompt_for_part_and_answer, one turn of the loop
PromptPart ==
    /\ prompt_pc = "part"
    /\ \E text \in PromptInputs :
        IF PartAccepted(text)
        THEN /\ part' = Some(lower(strip(text)))
             /\ prompt_pc' = "answer"
             /\ last_input' = None
             /\ reprompts' = 0
        ELSE /\ reprompts < MaxReprompts
             /\ last_input' = Some(text)
             /\ reprompts' = reprompts + 1
             /\ UNCHANGED <<part, prompt_pc>>
    /\ UNCHANGED <<prompt_now, year, day, answer>>
    /\ UNCHANGED <<parseVars, attemptVars, dataVars, menuVars, scaffoldVars>>

\* answer = input("Enter the answer: ").strip(); return part, answer
PromptAnswer ==
    /\ prompt_pc = "answer"
    /\ \E text \in PromptInputs : answer' = Some(strip(text))
    /\ prompt_pc' = "returned"
    /\ UNCHANGED <<prompt_now, year, day, part, last_input, reprompts>>
    /\ UNCHANGED <<parseVars, attemptVars, dataVars, menuVars, scaffoldVars>>

PromptNext ==
    \/ PromptYear
    \/ PromptDay
    \/ PromptPart
    \/ PromptAnswer

SpecPrompt == PromptInit /\ [][PromptNext]_vars

\* the text, stripped, is the decimal writing of a number of the set
WritesOneOf(text, S) == \E v \in S : strip(text) = str(v)

\* the text names a value the field takes: a year from 2015 to the current one, a day
\* from 1 to 25, a part a or b; or it is empty and the field has a default
Denotes(field, text) ==
    LET n == Get(prompt_now)
        december == n.month = 12 /\ n.day \in 1..25
    IN  CASE field = "year" ->
                \/ WritesOneOf(text, 2015..n.year)
                \/ strip(text) = <<>> /\ december
          [] field = "day" ->
                \/ WritesOneOf(text, 1..25)
                \/ strip(text) = <<>> /\ december
          [] field = "part" -> strip(text) \in {<<"a">>, <<"b">>, <<"A">>, <<"B">>}
          [] OTHER -> TRUE

\* C15: the prompts pass on a valid puzzle only: the year is an integer from 2015 to the
\* current year, the day an integer from 1 to 25, the part "a" or "b"; a prompt is left
\* only with such a value, and an input it refuses (empty without a December default,
\* not a number, out of range) names no valid value and leaves the prompt at its field.
C15_PromptsReturnValidIdentity ==
    /\ year # None => Get(year) \in 2015..Get(prompt_now).year
    /\ day # None => Get(day) \in 1..25
    /\ part # None => Get(part) \in {<<"a">>, <<"b">>}
    /\ prompt_pc \in {"day", "part", "answer", "returned"} => year # None
    /\ prompt_pc \in {"part", "answer", "returned"} => day # None
    /\ prompt_pc \in {"answer", "returned"} => part # None
    /\ reprompts > 0 =>
            /\ prompt_pc \in {"year", "day", "part"}
            /\ last_input # None
            /\ ~Denotes(prompt_pc, Get(last_input))

\* outside December, the empty input at the day prompt was refused after a valid year
C15_Witness ==
    /\ prompt_pc = "day"
    /\ year # None
    /\ Get(prompt_now).month # 12
    /\ reprompts > 0
    /\ last_input = Some(<<>>)

(***************************************************************************)
(* aoc_data: example.txt of one day, its refresh and fetch_data_for_day.    *)
(* The text of example.txt is a sequence of characters; what                *)
(* "aocd <day> <year> --example" prints is the same all through a run.      *)
(*   data_pc: "menu"     main waits for a menu choice                       *)
(*            "crashed"  an exception left main                             *)
(***************************************************************************)
LitAnswerBDash == <<"a","n","s","w","e","r","_","b",":"," ","-">>
LitThatsTheRightAnswer == <<"T","h","a","t","'","s"," ","t","h","e"," ","r","i","g","h","t"," ","a","n","s","w","e","r">>

ExamplePartA == <<"a","n","s","w","e","r","_","a",":"," ","5","\n","a","n","s","w","e","r","_","b",":"," ","-">>
ExampleBoth == <<"a","n","s","w","e","r","_","a",":"," ","5","\n","a","n","s","w","e","r","_","b",":"," ","7">>
ExampleNegative == <<"a","n","s","w","e","r","_","a",":"," ","5","\n","a","n","s","w","e","r","_","b",":"," ","-","7">>
ExampleTexts == {ExamplePartA, ExampleBoth, ExampleNegative, <<>>}

\* example.txt, or the result of subprocess.run: a text, or None (no file; the command
\* failed with CalledProcessError)
ExampleStates == {None} \cup {Some(t) : t \in ExampleTexts}

MsgThatsRight == <<"T","h","a","t","'","s"," ","t","h","e"," ","r","i","g","h","t"," ","a","n","s","w","e","r","!">>

Submissions == [part : {"a", "b"}, message : {MsgThatsRight, MsgNotRight}]

\* the feedback file of the day: missing, not readable by json.load, or a list
PostFiles ==
    {None, Some([valid |-> FALSE, data |-> <<>>])}
    \cup UNION { {Some([valid |-> TRUE, data |-> d]) : d \in [1..k -> Submissions]} :
                    k \in 0..MaxSubmissions }

\* positional parameters of the two functions, neither with a default value
is_valid_base_dir_params == 1
get_example_input_params == 3

\* a call with another number of positional arguments raises TypeError
TypeErrorOnCall(params, given) == given # params

\* get_example_input called with 'given' arguments
get_example_input(file, fetch, given) ==
    IF TypeErrorOnCall(get_example_input_params, given)
    THEN [raised |-> TRUE, file |-> file, fetched |-> FALSE, result |-> FALSE]
    ELSE IF TypeErrorOnCall(is_valid_base_dir_params, 2)
    THEN [raised |-> TRUE, file |-> file, fetched |-> FALSE, result |-> FALSE]
    ELSE IF file = None
    THEN IF fetch # None
         THEN [raised |-> FALSE, file |-> fetch, fetched |-> TRUE, result |-> TRUE]
         ELSE [raised |-> FALSE, file |-> file, fetched |-> TRUE, result |-> FALSE]
    ELSE [raised |-> FALSE, file |-> file, fetched |-> FALSE, result |-> FALSE]

\* check_for_part_a_completion
check_for_part_a_completion(post) ==
    IF post = None THEN Returned(FALSE)
    ELSE IF ~Get(post).valid THEN Raised
    ELSE Returned(\E k \in 1..Len(Get(post).data) :
                    /\ Get(post).data[k].part = "a"
                    /\ Contains(Get(post).data[k].message, LitThatsTheRightAnswer))

\* the refresh that fetches whenever example.txt exists
check_and_update_example_input_AlwaysFetch(file, fetch) ==
    IF file # None
    THEN IF fetch # None
         THEN [raised |-> FALSE, file |-> fetch, fetched |-> TRUE, result |-> TRUE]
         ELSE [raised |-> FALSE, file |-> file, fetched |-> TRUE, result |-> FALSE]
    ELSE get_example_input(file, fetch, 2)

\* check_and_update_example_input: the file after the call, whether the command was
\* run, and what the call returned
check_and_update_example_input(file, fetch) ==
    IF file # None
    THEN IF Contains(Get(file), LitAnswerBDash)
         THEN IF fetch # None
              THEN [raised |-> FALSE, file |-> fetch, fetched |-> TRUE, result |-> TRUE]
              ELSE [raised |-> FALSE, file |-> file, fetched |-> TRUE, result |-> FALSE]
         ELSE [raised |-> FALSE, file |-> file, fetched |-> FALSE, result |-> FALSE]
    ELSE get_example_input(file, fetch, 2)

\* fetch_data_for_day after its prompts (input.txt is not part of the state)
fetch_data_for_day(file, fetch, post) ==
    IF TypeErrorOnCall(is_valid_base_dir_params, 2)
    THEN [raised |-> TRUE, file |-> file, example_fetched |-> FALSE,
          refresh_invoked |-> FALSE]
    ELSE LET g == get_example_input(file, fetch, 3)
             c == check_for_part_a_completion(post)
         IN  IF g.raised \/ c.raised
             THEN [raised |-> TRUE, file |-> g.file, example_fetched |-> g.result,
                   refresh_invoked |-> FALSE]
             ELSE LET example_fetched == g.result
                      part_a_completed == c.value
                      example_exists == g.file # None
                  IN  IF (part_a_completed \/ example_exists) /\ ~example_fetched
                      THEN LET u == check_and_update_example_input(g.file, fetch)
                           IN  [raised |-> u.raised, file |-> u.file,
                                example_fetched |-> example_fetched,
                                refresh_invoked |-> TRUE]
                      ELSE [raised |-> FALSE, file |-> g.file,
                            example_fetched |-> example_fetched,
                            refresh_invoked |-> FALSE]

DataInit ==
    /\ message = <<>>
    /\ wait_time = 0
    /\ parse_pc = "start"
    /\ AttemptIdle
    /\ PromptIdle
    /\ MenuIdle
    /\ ScaffoldIdle
    /\ data_pc = "menu"
    /\ example_file \in ExampleStates
    /\ aocd_example \in ExampleStates
    /\ post_file \in PostFiles
    /\ refresh_log = <<>>
    /\ fetch_result = None

\* one call of check_and_update_example_input from submit_answer_attempt, which catches
\* what the call raises
CheckAndUpdateExampleInput ==
    /\ data_pc = "menu"
    /\ Len(refresh_log) < MaxRefreshCalls
    /\ LET u == check_and_update_example_input(example_file, aocd_example)
       IN  /\ example_file' = u.file
           /\ refresh_log' = Append(refresh_log,
                    [before |-> example_file, after |-> u.file, fetched |-> u.fetched,
                     result |-> u.result, raised |-> u.raised])
    /\ UNCHANGED <<data_pc, aocd_example, post_file, fetch_result>>
    /\ UNCHANGED <<parseVars, attemptVars, promptVars, menuVars, scaffoldVars>>

\* main, choice "2": fetch_data_for_day; main does not catch what it raises
FetchDataForDay ==
    /\ data_pc = "menu"
    /\ fetch_result = None
    /\ LET f == fetch_data_for_day(example_file, aocd_example, post_file)
       IN  /\ example_file' = f.file
           /\ fetch_result' = Some(f)
           /\ data_pc' = IF f.raised THEN "crashed" ELSE "menu"
    /\ UNCHANGED <<aocd_example, post_file, refresh_log>>
    /\ UNCHANGED <<parseVars, attemptVars, promptVars, menuVars, scaffoldVars>>

DataNext ==
    \/ CheckAndUpdateExampleInput
    \/ FetchDataForDay

SpecData == DataInit /\ [][DataNext]_vars

\* C16: a call of check_and_update_example_input on an example.txt that exists and does
\* not hold "answer_b: -" runs no fetch, leaves the file as it is and returns False; and
\* a call that follows another call leaves the file as the call before left it.
C16_RefreshIsIdempotent ==
    \A k \in 1..Len(refresh_log) :
        LET e == refresh_log[k]
        IN  /\ (e.before # None /\ ~Contains(Get(e.before), LitAnswerBDash))
                    => /\ ~e.fetched
                       /\ e.after = e.before
                       /\ ~e.raised
                       /\ e.result = FALSE
            /\ k > 1 => e.after = refresh_log[k - 1].after

\* a first call replaced a file with the placeholder by one without it, and a second
\* call found the file up to date
C16_Witness ==
    /\ Len(refresh_log) >= 2
    /\ refresh_log[1].fetched
    /\ refresh_log[1].after # refresh_log[1].before
    /\ refresh_log[2].before = Some(ExampleBoth)
    /\ ~refresh_log[2].fetched
    /\ example_file = Some(ExampleBoth)

\* the feedback file of the day records part a as answered correctly
PartARecorded ==
    /\ post_file # None
    /\ Get(post_file).valid
    /\ \E k \in 1..Len(Get(post_file).data) :
            /\ Get(post_file).data[k].part = "a"
            /\ Get(post_file).data[k].message = MsgThatsRight

\* C20: when fetch_data_for_day has ended, it has called the refresh
\* check_and_update_example_input if and only if it did not fetch the example itself and
\* part a is recorded as answered correctly or example.txt exists.
C20_RefreshIffNotFetchedAndDue ==
    fetch_result # None =>
        ( Get(fetch_result).refresh_invoked
            <=> /\ ~Get(fetch_result).example_fetched
                /\ PartARecorded \/ example_file # None )

\* the paragraph holds one of the two markers the loop tests
HoldsMarker(text) == InText(CompletedDay, text) \/ InText(ContinueToPartTwo, text)

\* C17: the loop over the paragraphs stops at the first paragraph that holds a marker: no
\* paragraph after it is examined, and an attempt never prints a completion message and
\* calls the refresh as well, nor calls the refresh twice.
C17_StopsAtFirstMarker ==
    /\ ( /\ pc = "classifying"
         /\ Get(response).article
         /\ para_idx <= Len(Get(response).paragraphs) )
            => \A k \in 1..(para_idx - 1) : ~HoldsMarker(Get(response).paragraphs[k])
    /\ ~(PrintedKind("completion") /\ refresh_calls # <<>>)
    /\ Len(refresh_calls) <= 1

\* no paragraph of the article holds a marker or the wording of a verdict
NoKnownPattern ==
    /\ HasMarkup
    /\ Get(response).article =>
            \A k \in 1..Len(Get(response).paragraphs) :
                LET text == Get(response).paragraphs[k]
                IN  /\ ~HoldsMarker(text)
                    /\ ~InText(RightAnswer, text)
                    /\ ~InText(NotRightAnswer, text)

\* C18: when the markup of the response matches no known pattern (no article, or an
\* article without any recognised wording), the attempt tells the operator that the
\* submission failed, and that is all it prints.
C18_UnknownMarkupFailedToSubmit ==
    (pc = "returned" /\ NoKnownPattern) => output = <<Printed("failed_to_submit", <<>>)>>

(***************************************************************************)
(* The claim about display_countdown_timer.                                *)
(***************************************************************************)
\* the number of whole seconds that cover t ticks
CeilSeconds(t) == (t + TicksPerSecond - 1) \div TicksPerSecond

\* what the iteration that starts with t ticks left renders
Rendered(t) ==
    Printed("timer", <<(t \div TicksPerSecond) \div 60, (t \div TicksPerSecond) % 60>>)

\* the countdown called with r0 has run as the claim says so far
CountdownSoFar(r0) ==
    /\ remaining_time = r0 - countdown_iters * TicksPerSecond
    /\ countdown_iters <= CeilSeconds(r0)
    /\ remaining_time > 0 <=> countdown_iters < CeilSeconds(r0)
    /\ \A k \in 1..countdown_iters :
            /\ output[k] = Rendered(r0 - (k - 1) * TicksPerSecond)
            /\ output[k].detail[2] \in 0..59

\* C19: display_countdown_timer, called with a remaining time r > 0, ends: every
\* iteration renders the minutes and seconds left and takes exactly one second off, the
\* loop runs exactly ceil(r) iterations, and "You may now submit your answer." is printed
\* once, after the last iteration, with nothing after it.
C19_CountdownRunsCeilSeconds ==
    /\ [] ( /\ pc = "waiting" =>
                /\ Get(remaining_wait_time) > 0
                /\ CountdownSoFar(Get(remaining_wait_time))
                /\ Len(output) = countdown_iters
            /\ (pc = "returned" /\ countdown_iters > 0) =>
                /\ CountdownSoFar(Get(remaining_wait_time))
                /\ countdown_iters = CeilSeconds(Get(remaining_wait_time))
                /\ Len(output) = countdown_iters + 1
                /\ output[Len(output)] = Printed("may_submit", <<>>) )
    /\ (pc = "waiting") ~> (pc = "returned")

\* a countdown of one second and a half has ended after two iterations
C19_Witness ==
    /\ pc = "returned"
    /\ remaining_wait_time = Some(TicksPerSecond + 1)
    /\ countdown_iters = 2
    /\ output[3] = Printed("may_submit", <<>>)

(***************************************************************************)
(* The menu loop of main (src/aoc_elf.py) and the configuration it tests.   *)
(* A Python value that is a string or a bool is a record, so that           *)
(* "validated_value is not False" compares values of one shape.             *)
(*   menu_pc: "menu"         at input("Enter your choice: ")                *)
(*            "continue"     at input("Press Enter to continue...")         *)
(*            "exited"       the loop ended on choice 5                     *)
(*            "interrupted"  KeyboardInterrupt, caught at the end of main   *)
(*            "crashed"      another exception left main                    *)
(***************************************************************************)
Str(text) == [type |-> "str", text |-> text, truth |-> FALSE]
Bool(b) == [type |-> "bool", text |-> <<>>, truth |-> b]
PyFalse == Bool(FALSE)

\* f"{value}": the text an f-string writes for a value
format(value) ==
    IF value.type = "str" THEN value.text
    ELSE IF value.truth THEN <<"T","r","u","e">> ELSE <<"F","a","l","s","e">>

\* str.rstrip("/\\")
RECURSIVE rstrip_slashes(_)
rstrip_slashes(text) ==
    IF Len(text) > 0 /\ text[Len(text)] \in {"/", "\\"}
    THEN rstrip_slashes(SubSeq(text, 1, Len(text) - 1))
    ELSE text

\* the directories os.path.isdir finds
ExistingDirs == { <<"/","a","o","c">> }

is_valid_base_dir(base_dir) ==
    LET formatted_dir == rstrip_slashes(base_dir)
    IN  IF formatted_dir \in ExistingDirs \/ base_dir = <<>>
        THEN Str(formatted_dir)
        ELSE PyFalse

\* the character classes [a-zA-Z0-9_-] and [a-zA-Z0-9._-]
IsWordChar(c) ==
    \/ \E i \in 1..26 : c = UpperChars[i] \/ c = LowerChars[i]
    \/ IsDigit(c)
    \/ c \in {"_", "-"}

GithubPrefix == <<"h","t","t","p","s",":","/","/","g","i","t","h","u","b",".","c","o","m","/">>

\* re.match(pattern, url) is not None: the pattern matches a prefix of url
is_valid_github_repo(url) ==
    LET p == Len(GithubPrefix)
    IN  Bool( /\ Len(url) >= p
              /\ SubSeq(url, 1, p) = GithubPrefix
              /\ \E k \in (p + 1)..(Len(url) - 2) :
                    /\ \A j \in (p + 1)..k : IsWordChar(url[j])
                    /\ url[k + 1] = "/"
                    /\ (IsWordChar(url[k + 2]) \/ url[k + 2] = ".") )

\* validator(value), for the validators setup_config passes to get_input
Validate(validator, value) ==
    IF validator = "is_valid_base_dir" THEN is_valid_base_dir(value)
    ELSE is_valid_github_repo(value)

\* get_input(prompt, default, validator) of config.py; inputs is what the operator
\* types at the prompt, one text for each time the loop asks
RECURSIVE get_input(_, _, _)
get_input(inputs, default, validator) ==
    LET value == strip(Head(inputs))
    IN  IF value = <<>>
        THEN IF default # None THEN Str(Get(default)) ELSE Str(<<"n","o","n","e">>)
        ELSE IF validator # "None"
             THEN LET validated_value == Validate(validator, value)
                  IN  IF validated_value # PyFalse
                      THEN validated_value
                      ELSE get_input(Tail(inputs), default, validator)
             ELSE Str(value)

\* load_dotenv reads "NAME=value": an unquoted value without its surrounding blanks
dotenv_value(text) == strip(text)

\* setup_config (and modify_config, which asks and writes the same): the three
\* get_input calls with the environment's values as defaults, the .env file written
\* with f-strings, and reload_env; the result is os.environ afterwards
setup_config(env, typed) ==
    LET B == get_input(typed.BASE_DIR, env.BASE_DIR, "is_valid_base_dir")
        G == get_input(typed.GITHUB_REPO, env.GITHUB_REPO, "is_valid_github_repo")
        A == get_input(typed.AOC_SESSION, env.AOC_SESSION, "None")
    IN  [BASE_DIR |-> Some(dotenv_value(format(B))),
         GITHUB_REPO |-> Some(dotenv_value(format(G))),
         AOC_SESSION |-> Some(dotenv_value(format(A)))]

\* setup_environment: os.path.join(BASE_DIR, "aoc_solutions") raises TypeError when
\* BASE_DIR is not in the environment
setup_environment(env) ==
    IF env.BASE_DIR = None THEN Raised
    ELSE Returned(<<env.BASE_DIR,
                    Some(Get(env.BASE_DIR) \o <<"/">> \o <<"a","o","c","_","s","o","l","u","t","i","o","n","s">>),
                    env.GITHUB_REPO, env.AOC_SESSION>>)

\* the initial load of main, line 93: the settings of the environment, in the order
\* setup_environment returns them
initialize_environment(env) ==
    <<env.BASE_DIR, None, env.GITHUB_REPO, env.AOC_SESSION>>

\* "not X or X.lower() == 'none'"
Unused(X) == X = None \/ Get(X) = <<>> \/ lower(Get(X)) = <<"n","o","n","e">>

unused_env_vars(B, G, A) ==
    {n \in {"BASE_DIR"} : Unused(B)}
    \cup {n \in {"GITHUB_REPO"} : Unused(G)}
    \cup {n \in {"AOC_SESSION"} : Unused(A)}

\* what the operator types at "Enter your choice: "
ChoiceInputs == { <<"0">>, <<" ","1">>, <<"2"," ">>, <<"3">>, <<"4">>, <<"5">>, <<"6">>, <<>> }

\* what the operator types at the prompts of option 0, until get_input returns
BaseDirInputs == { <<<<>>>>, << <<"/","a","o","c","/">> >>, << <<"/","n","o","w","h","e","r","e">>, <<" ","/","a","o","c">> >>, << <<"N","O","N","E">>, <<>> >> }
RepoInputs == { << <<>> >>, << <<"h","t","t","p","s",":","/","/","g","i","t","h","u","b",".","c","o","m","/","a","/","b">> >>,
                << <<"g","i","t","h","u","b",".","c","o","m","/","a","/","b">>, <<"h","t","t","p","s",":","/","/","g","i","t","h","u","b",".","c","o","m","/","a","-","b","/","c",".","d","/">> >> }
SessionInputs == { << <<>> >>, << <<"a","b","c">> >>, << <<"N","o","n","e"," ">> >> }

Typed ==
    [BASE_DIR : BaseDirInputs, GITHUB_REPO : RepoInputs, AOC_SESSION : SessionInputs]

\* the settings in the environment when main starts: the modules main imports call
\* setup_environment (git_operations.py line 7), which needs BASE_DIR to be there
InitialEnvirons ==
    [BASE_DIR : {Some(<<>>), Some(<<"n","o","n","e">>), Some(<<"/","a","o","c">>)},
     GITHUB_REPO : {None, Some(<<"N","o","N","e">>), Some(<<"T","r","u","e">>)},
     AOC_SESSION : {None, Some(<<>>), Some(<<"a","b","c">>)}]

\* how a call of each feature ends: it returns to main, an exception leaves it, or
\* the operator interrupts one of its prompts
FeatureOutcomes(name) ==
    {"interrupted"}
    \cup
    ( IF name = "setup_aoc_environment" THEN {"returned"}
      ELSE IF name = "fetch_data_for_day"
      THEN { IF fetch_data_for_day(f, e, p).raised THEN "raised" ELSE "returned" :
                f \in ExampleStates, e \in ExampleStates, p \in PostFiles }
      ELSE {"returned", "raised"} )

\* where main is after a feature ended with outcome o
AfterFeature(o) ==
    IF o = "returned" THEN "continue"
    ELSE IF o = "interrupted" THEN "interrupted"
    ELSE "crashed"

MenuInit ==
    /\ message = <<>>
    /\ wait_time = 0
    /\ parse_pc = "start"
    /\ AttemptIdle
    /\ PromptIdle
    /\ DataIdle
    /\ ScaffoldIdle
    /\ menu_pc = "menu"
    /\ environ \in InitialEnvirons
    /\ BASE_DIR = initialize_environment(environ)[1]
    /\ GITHUB_REPO = initialize_environment(environ)[3]
    /\ AOC_SESSION = initialize_environment(environ)[4]
    /\ unused_envs = unused_env_vars(BASE_DIR, GITHUB_REPO, AOC_SESSION)
    /\ choice = None
    /\ feature = None

\* the operator typed c at "Enter your choice: "
Chose(c) ==
    /\ menu_pc = "menu"
    /\ \E typed \in ChoiceInputs : strip(typed) = c
    /\ choice' = Some(c)

\* choice "0": setup_config, setup_environment, unused_env_vars
Option0 ==
    /\ Chose(<<"0">>)
    /\ \E typed \in Typed :
          LET env == setup_config(environ, typed)
              r == setup_environment(env)
          IN  /\ environ' = env
              /\ IF r.raised
                 THEN /\ menu_pc' = "crashed"
                      /\ UNCHANGED <<BASE_DIR, GITHUB_REPO, AOC_SESSION, unused_envs>>
                 ELSE /\ BASE_DIR' = r.value[1]
                      /\ GITHUB_REPO' = r.value[3]
                      /\ AOC_SESSION' = r.value[4]
                      /\ unused_envs' =
                            unused_env_vars(r.value[1], r.value[3], r.value[4])
                      /\ menu_pc' = "continue"
    /\ feature' = None
    /\ UNCHANGED <<parseVars, attemptVars, promptVars, dataVars, scaffoldVars>>

\* a choice that calls a feature unless one of the names it needs is in unused_envs
RunFeature(c, needs, name) ==
    /\ Chose(c)
    /\ IF needs \cap unused_envs # {}
       THEN /\ feature' = None
            /\ menu_pc' = "continue"
       ELSE /\ feature' = Some(name)
            /\ \E o \in FeatureOutcomes(name) : menu_pc' = AfterFeature(o)
    /\ UNCHANGED <<environ, BASE_DIR, GITHUB_REPO, AOC_SESSION, unused_envs>>
    /\ UNCHANGED <<parseVars, attemptVars, promptVars, dataVars, scaffoldVars>>

\* choice "1": setup_aoc_environment, which needs BASE_DIR
Option1 ==
    /\ menu_pc = "menu"
    /\ RunFeature(<<"1">>, {"BASE_DIR"}, "setup_aoc_environment")

\* choice "2": fetch_data_for_day, which needs BASE_DIR and AOC_SESSION
Option2 ==
    /\ menu_pc = "menu"
    /\ RunFeature(<<"2">>, {"BASE_DIR", "AOC_SESSION"}, "fetch_data_for_day")

\* choice "3": submit_answer, which needs AOC_SESSION
Option3 ==
    /\ menu_pc = "menu"
    /\ RunFeature(<<"3">>, {"AOC_SESSION"}, "submit_answer")

\* choice "4": perform_git_operations, which needs GITHUB_REPO
Option4 ==
    /\ menu_pc = "menu"
    /\ RunFeature(<<"4">>, {"GITHUB_REPO"}, "perform_git_operations")

\* choice "5": break
Option5 ==
    /\ Chose(<<"5">>)
    /\ menu_pc' = "exited"
    /\ feature' = None
    /\ UNCHANGED <<environ, BASE_DIR, GITHUB_REPO, AOC_SESSION, unused_envs>>
    /\ UNCHANGED <<parseVars, attemptVars, promptVars, dataVars, scaffoldVars>>

\* any other choice: "Invalid choice"
InvalidChoice ==
    /\ \E typed \in ChoiceInputs :
          /\ strip(typed) \notin { <<"0">>, <<"1">>, <<"2">>, <<"3">>, <<"4">>, <<"5">> }
          /\ Chose(strip(typed))
    /\ menu_pc' = "continue"
    /\ feature' = None
    /\ UNCHANGED <<environ, BASE_DIR, GITHUB_REPO, AOC_SESSION, unused_envs>>
    /\ UNCHANGED <<parseVars, attemptVars, promptVars, dataVars, scaffoldVars>>

\* input("Press Enter to continue...") returns and the loop starts over
PressEnter ==
    /\ menu_pc = "continue"
    /\ menu_pc' = "menu"
    /\ UNCHANGED <<environ, BASE_DIR, GITHUB_REPO, AOC_SESSION, unused_envs, choice,
                   feature>>
    /\ UNCHANGED <<parseVars, attemptVars, promptVars, dataVars, scaffoldVars>>

\* the operator interrupts one of the two inputs of the loop
KeyboardInterrupt ==
    /\ menu_pc \in {"menu", "continue"}
    /\ menu_pc' = "interrupted"
    /\ UNCHANGED <<environ, BASE_DIR, GITHUB_REPO, AOC_SESSION, unused_envs, choice,
                   feature>>
    /\ UNCHANGED <<parseVars, attemptVars, promptVars, dataVars, scaffoldVars>>

MenuNext ==
    \/ Option0
    \/ Option1
    \/ Option2
    \/ Option3
    \/ Option4
    \/ Option5
    \/ InvalidChoice
    \/ PressEnter
    \/ KeyboardInterrupt

SpecMenu == MenuInit /\ [][MenuNext]_vars

\* the settings the features need
Needs ==
    [setup_aoc_environment |-> <<"BASE_DIR">>,
     fetch_data_for_day |-> <<"BASE_DIR", "AOC_SESSION">>,
     submit_answer |-> <<"AOC_SESSION">>,
     perform_git_operations |-> <<"GITHUB_REPO">>]

\* the value of a setting as of the latest refresh
Setting(n) ==
    IF n = "BASE_DIR" THEN BASE_DIR
    ELSE IF n = "GITHUB_REPO" THEN GITHUB_REPO
    ELSE AOC_SESSION

\* set: there, not empty and not "none" in any case
IsSet(X) == X # None /\ Get(X) # <<>> /\ lower(Get(X)) # <<"n","o","n","e">>

\* the feature the last choice called had every setting it needs
FeatureHadItsSettings ==
    feature # None =>
        \A k \in 1..Len(Needs[Get(feature)]) : IsSet(Setting(Needs[Get(feature)][k]))

\* C21: after any sequence of menu choices a feature runs only when the settings it
\* needs are set as of the latest refresh of the configuration (the initial load or
\* the last option 0), where empty and "none" in any case count as not set, and the
\* loop of main ends only on choice 5 or on an interrupt of the operator.
C21_GatedAndEndsOnFiveOrInterrupt ==
    /\ FeatureHadItsSettings
    /\ menu_pc \in {"menu", "continue", "exited", "interrupted"}

\* the first half of C21 alone: no feature runs without its settings
C21_FeatureRunsOnlyWhenConfigured == FeatureHadItsSettings

\* the settings main tests are those of the environment after the last refresh
C21_GlobalsAreTheEnvironment ==
    /\ BASE_DIR = environ.BASE_DIR
    /\ GITHUB_REPO = environ.GITHUB_REPO
    /\ AOC_SESSION = environ.AOC_SESSION

(***************************************************************************)
(* The scaffolding of a year: setup_aoc_environment, create_year_dir,       *)
(* create_day_dir and copy_solution_template (src/utils/file_operations.py).*)
(*   scaf_pc: "year"     setup_aoc_environment is about to call             *)
(*                       create_year_dir                                    *)
(*            "days"     the loop of create_day_dir, at day scaf_day        *)
(*            "done"     create_day_dir has returned results                *)
(*            "aborted"  create_year_dir returned None                      *)
(*   a day directory is "absent", "old" (there before the call, untouched), *)
(*   "damaged" (what a failed rmtree left), "empty" (made anew),            *)
(*   "solution" (made anew, solution.py copied) or "full" (both templates)  *)
(***************************************************************************)
\* the days whose directory may be there before the call
OldDays == {1, 25}

\* the days on which a file operation may fail: rmtree, makedirs, or one of the two
\* copies of copy_solution_template
FaultyDays == {2, 25}

\* what the operator types at "... Overwrite? (y/n): ", one text for
\* each time confirm_overwrite asks
OverwriteInputs ==
    { << <<"y">> >>, << <<" ","Y">> >>, << <<"n">> >>, << <<>> >>, << <<"y","e","s">>, <<"y">> >>, << <<"n","o">>, <<"N"," ">> >> }

\* the directory of the year, among the numbers of the days
YearDir == 0

\* f"day_{day:02}"
day_dir_name(d) == <<"d","a","y","_">> \o <<DigitChars[(d \div 10) + 1], DigitChars[(d % 10) + 1]>>

\* confirm_overwrite answering y to an empty response as well
RECURSIVE confirm_overwrite_BlankIsYes(_)
confirm_overwrite_BlankIsYes(inputs) ==
    LET r == lower(strip(Head(inputs)))
    IN  IF r = <<"y">> \/ r = <<>> THEN [result |-> TRUE, response |-> r]
        ELSE IF r = <<"n">> THEN [result |-> FALSE, response |-> r]
        ELSE confirm_overwrite_BlankIsYes(Tail(inputs))

\* confirm_overwrite: what it returns and the response that ended its loop
RECURSIVE confirm_overwrite(_)
confirm_overwrite(inputs) ==
    LET r == lower(strip(Head(inputs)))
    IN  IF r = <<"y">> THEN [result |-> TRUE, response |-> r]
        ELSE IF r = <<"n">> \/ r = <<>> THEN [result |-> FALSE, response |-> r]
        ELSE confirm_overwrite(Tail(inputs))

\* copy_solution_template returning True when only solution.py was copied
copy_solution_template_IgnoreHelper(fault) ==
    IF fault = "copy_solution" THEN [ok |-> FALSE, dir |-> "empty"]
    ELSE IF fault = "copy_helper" THEN [ok |-> TRUE, dir |-> "solution"]
    ELSE [ok |-> TRUE, dir |-> "full"]

\* copy_solution_template into a directory made anew: what it returns and what the
\* directory holds afterwards
copy_solution_template(fault) ==
    IF fault = "copy_solution" THEN [ok |-> FALSE, dir |-> "empty"]
    ELSE IF fault = "copy_helper" THEN [ok |-> FALSE, dir |-> "solution"]
    ELSE [ok |-> TRUE, dir |-> "full"]

\* the try block of create_day_dir for a directory in state dir: the directory
\* afterwards, whether rmtree removed it, and whether the day is appended to created
TryCreate(dir, fault) ==
    LET exists == dir # "absent"
    IN  IF exists /\ fault = "rmtree"
        THEN { [dir |-> left, removed |-> FALSE, created |-> FALSE] :
                  left \in {dir, "damaged"} }
        ELSE IF fault = "makedirs"
        THEN { [dir |-> "absent", removed |-> exists, created |-> FALSE] }
        ELSE LET t == copy_solution_template(fault)
             IN  { [dir |-> t.dir, removed |-> exists, created |-> t.ok] }

ScaffoldInit ==
    /\ message = <<>>
    /\ wait_time = 0
    /\ parse_pc = "start"
    /\ AttemptIdle
    /\ PromptIdle
    /\ DataIdle
    /\ MenuIdle
    /\ scaf_pc = "year"
    /\ year_dir_exists \in BOOLEAN
    /\ \E old \in SUBSET OldDays :
          /\ old # {} => year_dir_exists
          /\ day_dirs = [d \in 1..AOC_DAYS |-> IF d \in old THEN "old" ELSE "absent"]
    /\ scaf_day = 0
    /\ results = None
    /\ overwrite_responses = {}
    /\ removed = {}

\* create_year_dir, and setup_aoc_environment up to the call of create_day_dir
CreateYearDir ==
    /\ scaf_pc = "year"
    /\ \E inputs \in OverwriteInputs, fault \in {"none", "makedirs"} :
          LET c == confirm_overwrite(inputs)
              declined == year_dir_exists /\ ~c.result
          IN  /\ overwrite_responses' =
                    IF year_dir_exists
                    THEN overwrite_responses \cup {<<YearDir, c.response>>}
                    ELSE overwrite_responses
              /\ IF declined \/ (fault = "makedirs" /\ ~year_dir_exists)
                 THEN /\ scaf_pc' = "aborted"
                      /\ UNCHANGED <<year_dir_exists, scaf_day, results>>
                 ELSE /\ scaf_pc' = "days"
                      /\ year_dir_exists' = TRUE
                      /\ scaf_day' = 1
                      /\ results' = Some([created |-> <<>>, skipped |-> <<>>])
    /\ UNCHANGED <<day_dirs, removed>>
    /\ UNCHANGED <<parseVars, attemptVars, promptVars, dataVars, menuVars>>

\* one iteration of the loop of create_day_dir
CreateDayDir ==
    /\ scaf_pc = "days"
    /\ scaf_day <= AOC_DAYS
    /\ LET d == scaf_day
           day_dir == day_dir_name(d)
           exists == day_dirs[d] # "absent"
           r == Get(results)
       IN  \E inputs \in OverwriteInputs :
              LET c == confirm_overwrite(inputs)
              IN  /\ overwrite_responses' =
                        IF exists
                        THEN overwrite_responses \cup {<<d, c.response>>}
                        ELSE overwrite_responses
                  /\ IF exists /\ ~c.result
                     THEN /\ results' = Some([r EXCEPT !.skipped = Append(@, day_dir)])
                          /\ UNCHANGED <<day_dirs, removed>>
                     ELSE \E fault \in (IF d \in FaultyDays
                                         THEN {"none", "rmtree", "makedirs",
                                               "copy_solution", "copy_helper"}
                                         ELSE {"none"}) :
                          \E t \in TryCreate(day_dirs[d], fault) :
                             /\ day_dirs' = [day_dirs EXCEPT ![d] = t.dir]
                             /\ removed' = IF t.removed THEN removed \cup {d} ELSE removed
                             /\ results' =
                                   IF t.created
                                   THEN Some([r EXCEPT !.created = Append(@, day_dir)])
                                   ELSE Some([r EXCEPT !.skipped = Append(@, day_dir)])
    /\ scaf_day' = scaf_day + 1
    /\ UNCHANGED <<scaf_pc, year_dir_exists>>
    /\ UNCHANGED <<parseVars, attemptVars, promptVars, dataVars, menuVars>>

\* create_day_dir returns results
CreateDayDirReturn ==
    /\ scaf_pc = "days"
    /\ scaf_day = AOC_DAYS + 1
    /\ scaf_pc' = "done"
    /\ UNCHANGED <<year_dir_exists, day_dirs, scaf_day, results, overwrite_responses,
                   removed>>
    /\ UNCHANGED <<parseVars, attemptVars, promptVars, dataVars, menuVars>>

ScaffoldNext ==
    \/ CreateYearDir
    \/ CreateDayDir
    \/ CreateDayDirReturn

SpecScaffold == ScaffoldInit /\ [][ScaffoldNext]_vars

\* the operator answered y when asked about directory d
ConfirmedWithY(d) == <<d, <<"y">>>> \in overwrite_responses

\* the operator declined the overwrite of directory d
Declined(d) == \E r \in { <<"n">>, <<>> } : <<d, r>> \in overwrite_responses

\* C22: a day directory is removed only after the operator confirmed the overwrite of
\* that directory with y, and when the operator declines the overwrite of the year
\* directory, create_year_dir returns None and no day directory is created, removed or
\* changed.
C22_RemovedOnlyWhenConfirmed ==
    /\ \A d \in removed : ConfirmedWithY(d)
    /\ \A d \in 1..AOC_DAYS : day_dirs[d] = "damaged" => ConfirmedWithY(d)
    /\ Declined(YearDir) =>
          /\ scaf_pc = "aborted"
          /\ results = None
          /\ removed = {}
          /\ \A d \in 1..AOC_DAYS : day_dirs[d] \in {"absent", "old"}

\* an old day directory was removed after a y while another, declined, is untouched
C22_Witness ==
    /\ scaf_pc = "done"
    /\ 1 \in removed
    /\ ConfirmedWithY(1)
    /\ Declined(25)
    /\ day_dirs[25] = "old"

\* the overwrite of the year directory was declined while an old day directory is there
C22_YearDeclined ==
    /\ scaf_pc = "aborted"
    /\ Declined(YearDir)
    /\ day_dirs[1] = "old"

\* the days create_day_dir has gone through
DaysDone == 1..(scaf_day - 1)

\* how often name is in list
Count(list, name) == Cardinality({k \in 1..Len(list) : list[k] = name})

\* C23: in the result of create_day_dir each of day_01 .. day_25 is exactly once in
\* created or skipped, never in both, and a day is in created only if its directory was
\* made anew and both templates were copied into it.
C23_EachDayOnceCreatedOrSkipped ==
    results # None =>
        LET r == Get(results)
        IN  /\ \A d \in DaysDone :
                  Count(r.created, day_dir_name(d)) + Count(r.skipped, day_dir_name(d)) = 1
            /\ Len(r.created) + Len(r.skipped) = Cardinality(DaysDone)
            /\ \A d \in 1..AOC_DAYS :
                  Count(r.created, day_dir_name(d)) > 0 => day_dirs[d] = "full"
            /\ scaf_pc = "done" => DaysDone = 1..AOC_DAYS

\* create_day_dir returned with day 1 overwritten and created, day 2 skipped because
\* the copy of the helper failed, and day 25 skipped because the operator declined
C23_Witness ==
    /\ scaf_pc = "done"
    /\ Count(Get(results).created, day_dir_name(1)) = 1
    /\ 1 \in removed
    /\ day_dirs[2] = "solution"
    /\ Count(Get(results).skipped, day_dir_name(2)) = 1
    /\ Declined(25)
    /\ Count(Get(results).skipped, day_dir_name(25)) = 1
    /\ Len(Get(results).created) = 23
====
